---- MODULE Spec2Model ----
(***************************************************************************)
(* Cash-Pedal: total-cost-of-ownership estimator.                          *)
(*                                                                         *)
(* The model covers the cost projection engines (depreciation,             *)
(* maintenance) and the orchestrator PredictionService.                    *)
(*                                                                         *)
(* Number representation.  The program computes in Python floats.  Here    *)
(* money is an integer number of cents, a multiplier or rate is an integer *)
(* number of millionths (ppm), and every product is rounded down to the    *)
(* unit (MulPpm).  Mileages, years and counts are the program's integers.  *)
(***************************************************************************)
EXTENDS Integers, Sequences, FiniteSets, TLC

VARIABLES
    clock,      \* datetime.now().year, the only ambient state the code reads
    call,       \* the latest calculate_total_cost_of_ownership invocation
    prev,       \* the invocation before it, kept when it had the same input
    engine,     \* the direct call of an engine entry point in progress
    session_state,  \* st.session_state, the per-session store of the UI
    returned    \* what the latest session_manager call returned

vars == <<clock, call, prev, engine, session_state, returned>>

(***************************************************************************)
(* Fixed-point helpers                                                     *)
(***************************************************************************)
Min(a, b) == IF a <= b THEN a ELSE b
Max(a, b) == IF a >= b THEN a ELSE b

\* floor(a * p / 10^6) for a >= 0, p >= 0, without leaving 32 bits
MulPpm(a, p) ==
    LET ah == a \div 1000
        al == a % 1000
        ph == p \div 1000
        pl == p % 1000
    IN  ah * ph + ((ah * pl + al * ph + ((al * pl) \div 1000)) \div 1000)

\* Python's None
None == [none |-> TRUE]

\* dict.get(key, default)
Get(d, key, default) == IF key \in DOMAIN d THEN d[key] ELSE default

RECURSIVE SumSeq(_)
SumSeq(s) == IF s = <<>> THEN 0 ELSE Head(s) + SumSeq(Tail(s))

(***************************************************************************)
(* Strings: str.lower() and the substring test `term in text`              *)
(***************************************************************************)
UpperChars == "ABCDEFGHIJKLMNOPQRSTUVWXYZ"
LowerChars == "abcdefghijklmnopqrstuvwxyz"

LowerChar(c) ==
    IF \E i \in 1..26 : SubSeq(UpperChars, i, i) = c
    THEN LET i == CHOOSE j \in 1..26 : SubSeq(UpperChars, j, j) = c
         IN  SubSeq(LowerChars, i, i)
    ELSE c

RECURSIVE LowerFrom(_, _)
LowerFrom(s, i) ==
    IF i > Len(s) THEN "" ELSE LowerChar(SubSeq(s, i, i)) \o LowerFrom(s, i + 1)

Lower(s) == LowerFrom(s, 1)

\* Python's `term in text` on strings
Contains(term, text) ==
    \E i \in 1..(Len(text) - Len(term) + 1) :
        SubSeq(text, i, i + Len(term) - 1) = term

AnyTermIn(terms, text) == \E t \in terms : Contains(t, text)

(***************************************************************************)
(* Depreciation engine: enhanced_depreciation.py                           *)
(***************************************************************************)
\* brand_multipliers, in hundredths; makes absent from the table are absent here
brand_multipliers ==
    [Toyota |-> 78, Honda |-> 80, Lexus |-> 75, Porsche |-> 82,
     Subaru |-> 88, Mazda |-> 90, Hyundai |-> 92, Kia |-> 94, Acura |-> 85,
     Ford |-> 100, Chevrolet |-> 102, GMC |-> 100, Buick |-> 98, Nissan |-> 103,
     Infiniti |-> 108, Volvo |-> 105,
     Volkswagen |-> 112, Mini |-> 115, Jaguar |-> 118, \* 'Land Rover': 120
     BMW |-> 122, Audi |-> 118, Cadillac |-> 120,      \* 'Mercedes-Benz': 125
     Lincoln |-> 125, Genesis |-> 115,
     Chrysler |-> 130, Dodge |-> 128, Jeep |-> 110, Ram |-> 105, Fiat |-> 135,
     Tesla |-> 115, Rivian |-> 125, Lucid |-> 130]     \* 'Alfa Romeo': 132

\* self.brand_multipliers.get(make, 1.0), in hundredths
BrandMultiplier(make) ==
    IF make \in DOMAIN brand_multipliers THEN brand_multipliers[make]
    ELSE IF make = "Land Rover" THEN 120
    ELSE IF make = "Mercedes-Benz" THEN 125
    ELSE IF make = "Alfa Romeo" THEN 132
    ELSE 100

\* segment_curves: cumulative fraction of value lost by year 1..15, in thousandths
segment_curves ==
    [luxury   |-> <<250, 420, 550, 650, 720, 770, 810, 840, 860, 880, 890, 900, 910, 920, 930>>,
     electric |-> <<300, 500, 650, 750, 820, 860, 890, 910, 920, 930, 940, 950, 950, 950, 950>>,
     truck    |-> <<150, 280, 380, 460, 530, 590, 640, 680, 710, 740, 760, 780, 800, 820, 840>>,
     sports   |-> <<220, 380, 500, 600, 680, 740, 780, 810, 830, 850, 860, 870, 880, 890, 900>>,
     suv      |-> <<180, 320, 430, 520, 600, 660, 710, 750, 780, 800, 820, 830, 840, 850, 860>>,
     compact  |-> <<200, 350, 470, 560, 640, 700, 750, 790, 820, 840, 860, 870, 880, 890, 900>>,
     sedan    |-> <<210, 360, 480, 580, 660, 720, 770, 810, 840, 860, 880, 890, 900, 910, 920>>,
     economy  |-> <<240, 400, 520, 620, 700, 760, 810, 840, 870, 890, 900, 910, 920, 930, 940>>]

standard_curve ==
    <<200, 340, 450, 540, 620, 680, 730, 770, 800, 820, 840, 850, 860, 870, 880>>

Segments == DOMAIN segment_curves

\* max_depreciation: the segment caps, in ppm
max_depreciation ==
    [luxury |-> 950000, electric |-> 960000, economy |-> 940000,
     sedan |-> 920000, compact |-> 910000, suv |-> 880000,
     truck |-> 850000, sports |-> 900000]

high_retention_models ==
    [Toyota |-> {"Prius", "Camry", "Corolla", "RAV4", "Highlander", "Sienna", "Tundra", "Tacoma"},
     Honda |-> {"Civic", "Accord", "CR-V", "Pilot", "Odyssey", "Ridgeline"},
     Subaru |-> {"Outback", "Forester", "Impreza", "WRX", "Crosstrek"},
     Lexus |-> {"RX", "ES", "GX", "LX", "NX"},
     Jeep |-> {"Wrangler"},
     Ford |-> {"F-150", "Bronco"},
     Chevrolet |-> {"Corvette", "Silverado", "Tahoe"},
     Porsche |-> {"911", "Macan", "Cayenne"},
     Tesla |-> {"Model S", "Model 3"}]

\* poor_retention_models; the keys 'Mercedes-Benz' and 'Land Rover' are looked
\* up by PoorRetentionModels below
poor_retention_models ==
    [BMW |-> {"X6", "7 Series", "i3", "i8"},
     Audi |-> {"A8", "R8", "Q7"},
     Cadillac |-> {"Escalade", "CT6"},
     Lincoln |-> {"Navigator", "Continental"},
     Chrysler |-> {"300", "Pacifica"},
     Fiat |-> {"500", "500X"},
     Jaguar |-> {"XJ", "F-Type"}]

PoorRetentionModels(make) ==
    IF make \in DOMAIN poor_retention_models THEN poor_retention_models[make]
    ELSE IF make = "Mercedes-Benz" THEN {"S-Class", "SL-Class", "G-Class"}
    ELSE IF make = "Land Rover" THEN {"Range Rover", "Discovery"}
    ELSE {}

ev_terms ==
    {"electric", "ev", "volt", "leaf", "prius prime", "ioniq",
     "model s", "model 3", "model x", "model y", "i3", "i4", "ix",
     "etron", "e-tron", "taycan", "lightning", "bolt", "clarity"}
ev_makes == {"tesla", "rivian", "lucid"}
luxury_brands ==
    {"bmw", "mercedes-benz", "audi", "lexus", "acura", "infiniti",
     "cadillac", "lincoln", "genesis", "volvo", "jaguar", "land rover",
     "porsche", "maserati", "bentley", "rolls-royce"}
sports_terms ==
    {"corvette", "mustang", "camaro", "challenger", "charger",
     "911", "cayman", "boxster", "gt", "sport", "rs", "m3", "m5",
     "amg", "type r", "sti", "wrx", "z", "supra", "nsx"}
truck_terms ==
    {"f-150", "f-250", "f-350", "silverado", "sierra", "ram 1500",
     "ram 2500", "tundra", "tacoma", "frontier", "ridgeline",
     "colorado", "canyon", "ranger", "gladiator", "titan", "truck"}
suv_terms ==
    {"suburban", "tahoe", "yukon", "expedition", "navigator",
     "escalade", "pilot", "passport", "ridgeline", "highlander",
     "rav4", "cr-v", "hr-v", "santa fe", "tucson", "sorento",
     "telluride", "palisade", "cx-5", "cx-9", "outback", "forester",
     "ascent", "pathfinder", "armada", "durango", "grand cherokee",
     "cherokee", "compass", "renegade", "wrangler", "suv"}
compact_terms ==
    {"civic", "corolla", "elantra", "forte", "sentra", "versa",
     "mazda3", "impreza", "crosstrek", "jetta", "golf"}
economy_terms == {"spark", "mirage", "rio", "accent", "yaris", "fit"}

\* a classification that would look at the brand before the electric terms
LuxuryBrandFirst(make, model) ==
    LET model_lower == Lower(model)
        make_lower == Lower(make)
    IN  IF make_lower \in luxury_brands THEN "luxury"
        ELSE IF AnyTermIn(ev_terms, model_lower) \/ make_lower \in ev_makes THEN "electric"
        ELSE IF AnyTermIn(sports_terms, model_lower) THEN "sports"
        ELSE IF AnyTermIn(truck_terms, model_lower) THEN "truck"
        ELSE IF AnyTermIn(suv_terms, model_lower) THEN "suv"
        ELSE IF AnyTermIn(compact_terms, model_lower) THEN "compact"
        ELSE IF AnyTermIn(economy_terms, model_lower) THEN "economy"
        ELSE "sedan"

\* _classify_vehicle_segment: the first matching rule decides
classify_vehicle_segment(make, model) ==
    LET model_lower == Lower(model)
        make_lower == Lower(make)
    IN  IF AnyTermIn(ev_terms, model_lower) \/ make_lower \in ev_makes THEN "electric"
        ELSE IF make_lower \in luxury_brands THEN "luxury"
        ELSE IF AnyTermIn(sports_terms, model_lower) THEN "sports"
        ELSE IF AnyTermIn(truck_terms, model_lower) THEN "truck"
        ELSE IF AnyTermIn(suv_terms, model_lower) THEN "suv"
        ELSE IF AnyTermIn(compact_terms, model_lower) THEN "compact"
        ELSE IF AnyTermIn(economy_terms, model_lower) THEN "economy"
        ELSE "sedan"

\* the extrapolation beyond year 15 without its ceiling, in thousandths
UncappedExtrapolation(year, segment) ==
    LET curve == IF segment \in DOMAIN segment_curves
                 THEN segment_curves[segment] ELSE standard_curve
    IN  IF year <= 15 THEN curve[year]
        ELSE curve[15] + (year - 15) * 5

\* _get_cumulative_depreciation_rate, in thousandths
get_cumulative_depreciation_rate(year, segment) ==
    LET curve == IF segment \in DOMAIN segment_curves
                 THEN segment_curves[segment] ELSE standard_curve
    IN  IF year <= 15 THEN curve[year]
        ELSE Min(960, curve[15] + (year - 15) * 5)

\* _calculate_mileage_impact, in ppm
calculate_mileage_impact(annual_mileage) ==
    IF annual_mileage <= 100 THEN 600000
    ELSE IF annual_mileage <= 1000
         THEN 600000 + (((annual_mileage - 100) * 500) \div 3)
    ELSE IF annual_mileage <= 5000
         THEN 750000 + (annual_mileage - 1000) * 25
    ELSE IF annual_mileage <= 12000
         THEN 850000 + ((annual_mileage * 25) \div 2)
    ELSE IF annual_mileage <= 20000
         THEN 1000000 + (((annual_mileage - 12000) * 125) \div 4)
    ELSE Min(1500000, 1250000 + (((annual_mileage - 20000) * 25) \div 2))

\* the brand multiplier left as it is for every model, in ten-thousandths
BrandMultiplierOnly(make, model, base_multiplier) == base_multiplier * 100

\* _apply_model_specific_adjustments; base_multiplier in hundredths, result in
\* ten-thousandths
apply_model_specific_adjustments(make, model, base_multiplier) ==
    IF /\ make \in DOMAIN high_retention_models
       /\ \E n \in high_retention_models[make] : Contains(Lower(n), Lower(model))
    THEN base_multiplier * 85
    ELSE IF \E n \in PoorRetentionModels(make) : Contains(Lower(n), Lower(model))
    THEN base_multiplier * 115
    ELSE base_multiplier * 100

\* a rate that would be left without its cap
UncappedRate(year, segment, adjusted_brand_multiplier, mileage_multiplier) ==
    MulPpm(get_cumulative_depreciation_rate(year, segment) * adjusted_brand_multiplier,
           mileage_multiplier) \div 10

\* adjusted_rate = min(curve * brand * mileage, cap), in ppm
AdjustedRate(year, segment, adjusted_brand_multiplier, mileage_multiplier) ==
    LET t == get_cumulative_depreciation_rate(year, segment) * adjusted_brand_multiplier
        raw == MulPpm(t, mileage_multiplier) \div 10
        cap == IF segment \in DOMAIN max_depreciation
               THEN max_depreciation[segment] ELSE 920000
    IN  Min(raw, cap)

\* vehicle_value of a year: initial_value * (1 - adjusted_rate)
NewValue(year, initial_value, segment, abm, mm) ==
    MulPpm(initial_value, 1000000 - AdjustedRate(year, segment, abm, mm))

\* a schedule that would report the cumulative loss as the year's depreciation
CumulativeDepreciation(year, initial_value, previous_value, new_value) ==
    initial_value - new_value

\* annual_depreciation of a year: the previous entry's value (the initial value
\* in year 1) minus the year's value
AnnualDepreciation(year, initial_value, previous_value, new_value) ==
    IF year = 1 THEN initial_value - new_value ELSE previous_value - new_value

\* one entry of the schedule
DepreciationEntry(year, initial_value, segment, abm, mm) ==
    LET new_value == NewValue(year, initial_value, segment, abm, mm)
        previous_value == IF year = 1 THEN initial_value
                          ELSE NewValue(year - 1, initial_value, segment, abm, mm)
    IN  [year |-> year,
         vehicle_value |-> new_value,
         annual_depreciation |->
             AnnualDepreciation(year, initial_value, previous_value, new_value),
         cumulative_depreciation |-> initial_value - new_value,
         depreciation_rate |-> AdjustedRate(year, segment, abm, mm),
         segment |-> segment,
         brand_multiplier |-> abm,
         mileage_multiplier |-> mm]

\* calculate_depreciation_schedule (model_year is accepted and not used)
calculate_depreciation_schedule(initial_value, vehicle_make, vehicle_model, model_year, annual_mileage, years) ==
    LET segment == classify_vehicle_segment(vehicle_make, vehicle_model)
        abm == apply_model_specific_adjustments(
                   vehicle_make, vehicle_model, BrandMultiplier(vehicle_make))
        mm == calculate_mileage_impact(annual_mileage)
    IN  [year \in 1..years |->
            DepreciationEntry(year, initial_value, segment, abm, mm)]

(***************************************************************************)
(* Used-vehicle schedule: prediction_service.py,                           *)
(* _calculate_realistic_used_vehicle_depreciation                          *)
(***************************************************************************)
\* annual_rates by vehicle age at purchase, in hundredths
UsedAnnualRates(vehicle_age_at_purchase) ==
    IF vehicle_age_at_purchase <= 3 THEN <<8, 7, 6, 5, 4>>
    ELSE IF vehicle_age_at_purchase <= 7 THEN <<5, 4, 4, 3, 3>>
    ELSE <<3, 2, 2, 2, 2>>

\* the used-vehicle brand_multipliers.get(make, 1.0), in tenths
UsedBrandMultiplier(make) ==
    CASE make \in {"Toyota", "Honda"} -> 8
      [] make = "Lexus" -> 7
      [] make \in {"BMW", "Mercedes-Benz"} -> 12
      [] make = "Audi" -> 11
      [] make = "Hyundai" -> 9
      [] OTHER -> 10

\* a loop body that would leave out the minimum value
UnflooredValue(current_value, adjusted_rate, min_value) ==
    current_value - MulPpm(current_value, adjusted_rate)

\* new_value = max(current_value - current_value * adjusted_rate, min_value)
UsedNewValue(current_value, adjusted_rate, min_value) ==
    Max(current_value - MulPpm(current_value, adjusted_rate), min_value)

\* one pass of the loop body; current_value is the value before the year
UsedEntry(year, model_year, current_year, initial_value, current_value, make) ==
    LET annual_rates == UsedAnnualRates(current_year - model_year)
        base_rate == annual_rates[Min(year - 1, Len(annual_rates) - 1) + 1]
        adjusted_rate == base_rate * UsedBrandMultiplier(make) * 1000
        min_value == MulPpm(initial_value, 150000)
        new_value == UsedNewValue(current_value, adjusted_rate, min_value)
        ownership_year == current_year + year - 1
    IN  [year |-> year,
         ownership_year |-> ownership_year,
         vehicle_age |-> ownership_year - model_year,
         vehicle_value |-> new_value,
         annual_depreciation |-> current_value - new_value,
         depreciation_rate |-> adjusted_rate]

RECURSIVE UsedLoop(_, _, _, _, _, _)
UsedLoop(schedule, analysis_years, model_year, current_year, initial_value, make) ==
    LET year == Len(schedule) + 1
        current_value == IF year = 1 THEN initial_value
                         ELSE schedule[year - 1].vehicle_value
    IN  IF year > analysis_years THEN schedule
        ELSE UsedLoop(
                 Append(schedule,
                        UsedEntry(year, model_year, current_year, initial_value,
                                  current_value, make)),
                 analysis_years, model_year, current_year, initial_value, make)

\* current_year is datetime.now().year, read inside the function
calculate_realistic_used_vehicle_depreciation(make, model_year, initial_value, analysis_years, current_year) ==
    UsedLoop(<<>>, analysis_years, model_year, current_year, initial_value, make)

(***************************************************************************)
(* Maintenance engine: models/maintenance/maintenance_utils.py             *)
(***************************************************************************)
\* service_intervals in dict order, with the service_costs of the same keys
\* (cents) and the display name service_type.replace('_', ' ').title()
service_intervals ==
    <<[service |-> "Oil Change",           interval |-> 7500,  cost |-> 6500],
      [service |-> "Tire Rotation",        interval |-> 7500,  cost |-> 2500],
      [service |-> "Air Filter",           interval |-> 15000, cost |-> 3500],
      [service |-> "Cabin Filter",         interval |-> 15000, cost |-> 4500],
      [service |-> "Brake Inspection",     interval |-> 15000, cost |-> 5000],
      [service |-> "Transmission Service", interval |-> 60000, cost |-> 20000],
      [service |-> "Coolant Flush",        interval |-> 60000, cost |-> 15000],
      [service |-> "Spark Plugs",          interval |-> 45000, cost |-> 18000],
      [service |-> "Major Service",        interval |-> 30000, cost |-> 40000],
      [service |-> "Differential Service", interval |-> 45000, cost |-> 12000],
      [service |-> "Fuel Filter",          interval |-> 30000, cost |-> 8500]>>

\* the maintenance brand_multipliers.get(make, 1.0), in hundredths
MaintenanceBrandMultiplier(make) ==
    CASE make = "Toyota" -> 85
      [] make = "Honda" -> 87
      [] make = "Mazda" -> 90
      [] make \in {"Hyundai", "Kia"} -> 92
      [] make = "Nissan" -> 95
      [] make = "Subaru" -> 98
      [] make = "Chevrolet" -> 105
      [] make = "Ford" -> 108
      [] make = "Ram" -> 112
      [] make = "BMW" -> 135
      [] make = "Mercedes-Benz" -> 140
      [] make = "Audi" -> 132
      [] make = "Volkswagen" -> 115
      [] make = "Volvo" -> 125
      [] OTHER -> 100

\* Python int(a / b): truncation toward zero
IntDiv(a, b) == IF a >= 0 THEN a \div b ELSE -((-a) \div b)

\* a count that would take the year's miles alone, whatever the odometer
ServicesInMilesDriven(interval, total_mileage, previous_total_mileage) ==
    IntDiv(total_mileage - previous_total_mileage, interval)

\* services_this_year for one service type
ServicesThisYear(interval, total_mileage, previous_total_mileage) ==
    IntDiv(total_mileage, interval) - IntDiv(previous_total_mileage, interval)

RECURSIVE YearServices(_, _, _)
YearServices(i, total_mileage, previous_total_mileage) ==
    IF i > Len(service_intervals) THEN <<>>
    ELSE LET s == service_intervals[i]
             due_prev == IntDiv(previous_total_mileage, s.interval)
             n == ServicesThisYear(s.interval, total_mileage, previous_total_mileage)
             rest == YearServices(i + 1, total_mileage, previous_total_mileage)
         IN  IF n > 0
             THEN <<[service |-> s.service,
                     frequency |-> n,
                     cost_per_service |-> s.cost,
                     total_cost |-> s.cost * n,
                     due_at_mileage |-> (due_prev + 1) * s.interval]>> \o rest
             ELSE rest

\* a year total that would count every service once, whatever its frequency
SumOfUnitCosts(services) ==
    SumSeq([i \in 1..Len(services) |-> services[i].cost_per_service])

\* total_year_cost: the total_cost of the year's services, added up
TotalCost(services) == SumSeq([i \in 1..Len(services) |-> services[i].total_cost])

\* the schedule entry of one year
MaintenanceYear(year, annual_mileage, starting_mileage) ==
    LET total_mileage == starting_mileage + annual_mileage * year
        previous_total_mileage == starting_mileage + annual_mileage * (year - 1)
        year_services == YearServices(1, total_mileage, previous_total_mileage)
    IN  [year |-> year,
         total_mileage |-> total_mileage,
         starting_year_mileage |-> previous_total_mileage,
         ending_year_mileage |-> total_mileage,
         services |-> year_services,
         total_year_cost |-> TotalCost(year_services)]

\* get_maintenance_schedule(annual_mileage, years, starting_mileage=0)
get_maintenance_schedule(annual_mileage, years, starting_mileage) ==
    [year \in 1..years |-> MaintenanceYear(year, annual_mileage, starting_mileage)]

(***************************************************************************)
(* Regional multiplier: zip_code_utils.py                                  *)
(***************************************************************************)
high_cost_states == {"CA", "NY", "HI", "MA", "CT", "NJ", "AK"}
low_cost_states == {"MS", "AL", "AR", "WV", "OK", "KS", "ND", "SD"}

\* get_regional_cost_multiplier(geography_type, state), in ppm
get_regional_cost_multiplier(geography_type, state) ==
    LET g == Lower(geography_type)
        multiplier == CASE g = "urban" -> 1150000
                        [] g = "suburban" -> 1000000
                        [] g = "rural" -> 850000
                        [] OTHER -> 1000000
    IN  IF state \in high_cost_states THEN (multiplier * 11) \div 10
        ELSE IF state \in low_cost_states THEN (multiplier * 9) \div 10
        ELSE multiplier

(***************************************************************************)
(* Orchestrator: prediction_service.py, lease path                         *)
(***************************************************************************)
\* warranty_discount by lease year, in tenths
WarrantyDiscount(lease_year) ==
    IF lease_year <= 2 THEN 6 ELSE IF lease_year <= 3 THEN 4 ELSE 2

\* full_cost of one occurrence: cost * brand * 1.2 (shop_multiplier) * regional
LeaseFullCost(cost_per_service, brand_multiplier, regional_multiplier) ==
    MulPpm(cost_per_service * brand_multiplier * 12, regional_multiplier) \div 1000

RECURSIVE LeaseServices(_, _, _, _, _)
LeaseServices(services, i, brand_multiplier, regional_multiplier, warranty_discount) ==
    IF i > Len(services) THEN <<>>
    ELSE LET service == services[i]
             full_cost == LeaseFullCost(service.cost_per_service, brand_multiplier,
                                        regional_multiplier)
             out_of_pocket_cost == (full_cost * (10 - warranty_discount)) \div 10
             rest == LeaseServices(services, i + 1, brand_multiplier,
                                   regional_multiplier, warranty_discount)
         IN  IF out_of_pocket_cost > 500
             THEN <<[service |-> service.service,
                     frequency |-> service.frequency,
                     cost_per_service |-> out_of_pocket_cost,
                     total_cost |-> out_of_pocket_cost * service.frequency,
                     warranty_covered |->
                         (full_cost * warranty_discount * service.frequency) \div 10,
                     shop_type |-> "dealership",
                     interval_based |-> TRUE]>> \o rest
             ELSE rest

\* the adjusted entry of one lease year
LeaseYear(year_data, brand_multiplier, regional_multiplier) ==
    LET lease_year == year_data.year
        warranty_discount == WarrantyDiscount(lease_year)
        scheduled == LeaseServices(year_data.services, 1, brand_multiplier,
                                   regional_multiplier, warranty_discount)
        wear_cost == MulPpm(10000 * brand_multiplier, regional_multiplier) \div 100
        adjusted_services ==
            IF lease_year > 3
            THEN Append(scheduled,
                        [service |-> "Minor Wear Items",
                         frequency |-> 1,
                         cost_per_service |-> wear_cost,
                         total_cost |-> wear_cost,
                         warranty_covered |-> 0,
                         shop_type |-> "dealership",
                         interval_based |-> FALSE])
            ELSE scheduled
    IN  [year |-> lease_year,
         total_mileage |-> year_data.total_mileage,
         services |-> adjusted_services,
         total_year_cost |-> TotalCost(adjusted_services),
         warranty_discount |-> warranty_discount,
         brand_multiplier |-> brand_multiplier,
         shop_multiplier |-> 12,
         regional_multiplier |-> regional_multiplier]

\* _adjust_lease_maintenance_schedule
adjust_lease_maintenance_schedule(base_schedule, vehicle_make, regional_multiplier) ==
    [i \in 1..Len(base_schedule) |->
        LeaseYear(base_schedule[i], MaintenanceBrandMultiplier(vehicle_make),
                  regional_multiplier)]

\* a penalty that would charge a quarter dollar per mile over the limit
QuarterDollarOverage(actual_mileage, allowed_mileage, lease_year, vehicle_value) ==
    (IF actual_mileage > allowed_mileage
     THEN (actual_mileage - allowed_mileage) * 25 ELSE 0)
    + MulPpm(vehicle_value, 1000)

\* _calculate_lease_fees_and_penalties, in cents
calculate_lease_fees_and_penalties(actual_mileage, allowed_mileage, lease_year, vehicle_value) ==
    (IF actual_mileage > allowed_mileage
     THEN (actual_mileage - allowed_mileage) * 20 ELSE 0)
    + MulPpm(vehicle_value, 1000)

\* one annual_breakdown row of a lease.  The premium and the fuel cost come
\* from estimators outside the repository: the row records the arguments they
\* are called with.
LeaseRow(year, input_data, vehicle_characteristics, regional_multiplier, lease_maintenance_schedule, lease_start_year) ==
    LET annual_mileage_limit == input_data.lease_mileage_limit
        ownership_year == lease_start_year + year - 1
        vehicle_value == input_data.trim_msrp
    IN  [year |-> year,
         ownership_year |-> ownership_year,
         lease_year |-> year,
         vehicle_age |-> ownership_year - input_data.year,
         vehicle_model_year |-> input_data.year,
         lease_payment |-> input_data.lease_monthly_payment * 12,
         maintenance |-> IF year <= Len(lease_maintenance_schedule)
                         THEN lease_maintenance_schedule[year].total_year_cost ELSE 0,
         maintenance_activities |-> IF year <= Len(lease_maintenance_schedule)
                                    THEN lease_maintenance_schedule[year].services
                                    ELSE <<>>,
         cumulative_mileage |-> annual_mileage_limit * year,
         insurance_args |-> [vehicle_value |-> vehicle_value,
                             vehicle_make |-> input_data.make,
                             vehicle_year |-> input_data.year,
                             coverage_type |-> "comprehensive",
                             annual_mileage |-> annual_mileage_limit,
                             regional_multiplier |-> regional_multiplier],
         fuel_args |-> IF Get(vehicle_characteristics, "is_electric", FALSE)
                       THEN [annual_mileage |-> annual_mileage_limit,
                             vehicle_efficiency |->
                                 Get(vehicle_characteristics, "mpge", 100)]
                       ELSE [annual_mileage |-> annual_mileage_limit,
                             mpg |-> Get(vehicle_characteristics, "mpg", 25)],
         fees_penalties |->
             calculate_lease_fees_and_penalties(
                 Get(input_data, "annual_mileage", annual_mileage_limit),
                 annual_mileage_limit, year, vehicle_value)]

\* annual_cost / gross_income * 100 as an exact fraction: whole percents and
\* the remainder over gross_income
PercentageOfIncome(annual_cost, gross_income) ==
    [whole |-> (annual_cost * 100) \div gross_income,
     remainder |-> (annual_cost * 100) % gross_income]

\* percentage <= limit, limit in whole percents
AtMostPercent(percentage, limit) ==
    \/ percentage.whole < limit
    \/ percentage.whole = limit /\ percentage.remainder = 0

\* an affordability check with a looser threshold for purchases
AffordabilityByTransaction(annual_cost, gross_income, transaction_type) ==
    LET percentage_of_income == PercentageOfIncome(annual_cost, gross_income)
        recommended_max == IF transaction_type = "purchase" THEN 15 ELSE 10
    IN  [annual_cost |-> annual_cost,
         monthly_cost |-> annual_cost \div 12,
         percentage_of_income |-> percentage_of_income,
         is_affordable |-> AtMostPercent(percentage_of_income, recommended_max),
         recommended_max_percentage |-> recommended_max,
         monthly_budget_impact |-> annual_cost \div 12,
         affordability_score |->
             IF annual_cost > 0
             THEN Min(100, (recommended_max * gross_income) \div annual_cost)
             ELSE 100]

\* _calculate_affordability; amounts in cents, the score in whole points
calculate_affordability(annual_cost, gross_income, transaction_type) ==
    LET monthly_cost == annual_cost \div 12
        percentage_of_income == PercentageOfIncome(annual_cost, gross_income)
        recommended_max == 10
    IN  [annual_cost |-> annual_cost,
         monthly_cost |-> monthly_cost,
         percentage_of_income |-> percentage_of_income,
         is_affordable |-> AtMostPercent(percentage_of_income, recommended_max),
         recommended_max_percentage |-> recommended_max,
         monthly_budget_impact |-> monthly_cost,
         affordability_score |->
             IF annual_cost > 0
             THEN Min(100, (recommended_max * gross_income) \div annual_cost)
             ELSE 100]

\* _get_calculation_assumptions: the entries read from the characteristics,
\* the reliability score in tenths
get_calculation_assumptions(input_data, vehicle_characteristics) ==
    [reliability_score |-> Get(vehicle_characteristics, "reliability_score", 35),
     market_segment |-> Get(vehicle_characteristics, "market_segment", "standard")]

\* _calculate_lease_tco: what the call returns or raises
calculate_lease_tco(input_data, vehicle_characteristics, regional_multiplier, now) ==
    LET lease_term == input_data.analysis_years
        starting_mileage == Get(input_data, "current_mileage", 0)
        base_maintenance_schedule ==
            get_maintenance_schedule(input_data.lease_mileage_limit, lease_term,
                                     starting_mileage)
        lease_maintenance_schedule ==
            adjust_lease_maintenance_schedule(base_maintenance_schedule,
                                              input_data.make, regional_multiplier)
        annual_breakdown ==
            [year \in 1..lease_term |->
                LeaseRow(year, input_data, vehicle_characteristics,
                         regional_multiplier, lease_maintenance_schedule, now)]
    IN  IF lease_term = 0
        THEN \* average_annual_cost = total_lease_cost / lease_term
             [kind |-> "raised", exception |-> "ZeroDivisionError"]
        ELSE [kind |-> "result",
              transaction |-> "lease",
              annual_breakdown |-> annual_breakdown,
              maintenance_schedule |-> lease_maintenance_schedule,
              category_totals |->
                  [lease_payments |->
                       SumSeq([i \in 1..Len(annual_breakdown) |->
                                   annual_breakdown[i].lease_payment]),
                   maintenance |->
                       SumSeq([i \in 1..Len(annual_breakdown) |->
                                   annual_breakdown[i].maintenance]),
                   fees_penalties |->
                       SumSeq([i \in 1..Len(annual_breakdown) |->
                                   annual_breakdown[i].fees_penalties])],
              down_payment |-> Get(input_data, "down_payment", 0),
              assumptions |->
                  get_calculation_assumptions(input_data, vehicle_characteristics)]

(***************************************************************************)
(* Orchestrator: prediction_service.py, purchase path                      *)
(***************************************************************************)
\* a detection that would look at the odometer alone
HasMileage(vehicle_age_at_purchase, current_mileage) == current_mileage > 0

\* the used-vehicle detection of _calculate_purchase_tco
IsUsedVehicle(vehicle_age_at_purchase, current_mileage) ==
    IF vehicle_age_at_purchase > 0 THEN TRUE
    ELSE IF vehicle_age_at_purchase = 0 /\ current_mileage > 3000 THEN TRUE
    ELSE FALSE

\* the arguments of financial_service.calculate_loan_payments, or None when
\* the call is not made
FinancingCall(input_data, purchase_price, analysis_years) ==
    LET loan_amount == Get(input_data, "loan_amount", (purchase_price * 8) \div 10)
    IN  IF /\ \/ Get(input_data, "financing_type", "cash") # "cash"
              \/ Get(input_data, "loan_amount", 0) > 0
              \/ Get(input_data, "financing_option", "None") = "finance"
           /\ loan_amount > 0
        THEN [loan_amount |-> loan_amount,
              interest_rate |-> Get(input_data, "interest_rate", 5),
              loan_term_years |-> Get(input_data, "loan_term", 5),
              analysis_years |-> analysis_years]
        ELSE None

\* _calculate_purchase_tco up to the maintenance schedule: the local variables
\* at the call of get_maintenance_schedule
PurchaseLocals(input_data, now) ==
    LET analysis_years == Get(input_data, "analysis_years", 5)
        purchase_price == Get(input_data, "price",
                              Get(input_data, "trim_msrp", 2500000))
        current_mileage == Get(input_data, "current_mileage", 0)
        is_used_vehicle == IsUsedVehicle(now - input_data.year, current_mileage)
    IN  [analysis_years |-> analysis_years,
         purchase_price |-> purchase_price,
         current_mileage |-> current_mileage,
         is_used_vehicle |-> is_used_vehicle,
         depreciation_model |-> IF is_used_vehicle THEN "used" ELSE "new",
         depreciation_schedule |->
             IF is_used_vehicle
             THEN calculate_realistic_used_vehicle_depreciation(
                      input_data.make, input_data.year, purchase_price,
                      analysis_years, now)
             ELSE calculate_depreciation_schedule(
                      purchase_price, input_data.make, input_data.model,
                      input_data.year, input_data.annual_mileage, analysis_years),
         financing_call |-> FinancingCall(input_data, purchase_price, analysis_years)]

\* _calculate_purchase_tco.  The call of get_maintenance_schedule passes the
\* keywords vehicle_make, driving_style and vehicle_model, which the signature
\* get_maintenance_schedule(self, annual_mileage, years, starting_mileage=0)
\* does not accept: Python raises TypeError at that call, whatever the input.
calculate_purchase_tco(input_data, vehicle_characteristics, regional_multiplier, now) ==
    [kind |-> "raised", exception |-> "TypeError"]

\* calculate_total_cost_of_ownership: the regional lookup is called with the
\* zip code in the place of the geography type
calculate_total_cost_of_ownership(input_data, vehicle_characteristics, now) ==
    LET regional_multiplier ==
            get_regional_cost_multiplier(Get(input_data, "zip_code", ""),
                                         Get(input_data, "state", ""))
    IN  IF Lower(Get(input_data, "transaction_type", "purchase")) = "lease"
        THEN calculate_lease_tco(input_data, vehicle_characteristics,
                                 regional_multiplier, now)
        ELSE calculate_purchase_tco(input_data, vehicle_characteristics,
                                    regional_multiplier, now)

(***************************************************************************)
(* Orchestrator: the purchase maintenance adjustment and the year loop of  *)
(* _calculate_purchase_tco, as functions of the values they read           *)
(***************************************************************************)
\* shop_multipliers.get(shop_type, 1.0) of _adjust_maintenance_schedule, hundredths
ShopMultiplier(shop_type) ==
    CASE shop_type = "dealership" -> 115
      [] shop_type = "chain" -> 105
      [] shop_type = "specialty" -> 110
      [] shop_type = "diy" -> 50
      [] OTHER -> 100

\* shop_multipliers.get(shop_type, 1.0) of the wear term: no 'diy' entry
WearShopMultiplier(shop_type) ==
    CASE shop_type = "dealership" -> 115
      [] shop_type = "chain" -> 105
      [] shop_type = "specialty" -> 110
      [] OTHER -> 100

\* max(0.8, min(1.3, regional_multiplier)), ppm
ClampRegional(regional_multiplier) == Max(800000, Min(1300000, regional_multiplier))

\* base_wear_costs.get(min(vehicle_age, 10), 600), cents
BaseWearCost(vehicle_age) ==
    LET a == Min(vehicle_age, 10)
    IN  CASE a = 4 -> 10000
          [] a = 5 -> 15000
          [] a = 6 -> 20000
          [] a = 7 -> 30000
          [] a = 8 -> 40000
          [] a = 9 -> 50000
          [] a = 10 -> 60000
          [] OTHER -> 60000

\* _calculate_year_specific_wear_maintenance
calculate_year_specific_wear_maintenance(vehicle_age, vehicle_make, shop_type, regional_multiplier) ==
    MulPpm(BaseWearCost(vehicle_age) * MaintenanceBrandMultiplier(vehicle_make)
               * WearShopMultiplier(shop_type),
           regional_multiplier) \div 10000

\* final_cost_per_service; min(brand_multiplier, 1.4) on the luxury branch
FinalCostPerService(base_cost, brand_multiplier, shop_multiplier, regional_multiplier) ==
    LET b == IF brand_multiplier < 95 THEN brand_multiplier
             ELSE IF brand_multiplier > 125 THEN Min(brand_multiplier, 140)
             ELSE brand_multiplier
    IN  MulPpm(base_cost * b * shop_multiplier, regional_multiplier) \div 10000

AdjustedYear(year_data, vehicle_make, shop_type, regional_multiplier) ==
    LET brand_multiplier == MaintenanceBrandMultiplier(vehicle_make)
        shop_multiplier == ShopMultiplier(shop_type)
        scheduled ==
            [i \in 1..Len(year_data.services) |->
                LET service == year_data.services[i]
                    final == FinalCostPerService(service.cost_per_service,
                                 brand_multiplier, shop_multiplier, regional_multiplier)
                IN  [service |-> service.service,
                     frequency |-> service.frequency,
                     cost_per_service |-> final,
                     total_cost |-> final * service.frequency,
                     shop_type |-> shop_type,
                     interval_based |-> TRUE]]
        vehicle_age == year_data.year
        wear_cost == calculate_year_specific_wear_maintenance(
                         vehicle_age, vehicle_make, shop_type, regional_multiplier)
        adjusted_services ==
            IF vehicle_age > 3 /\ wear_cost > 10000
            THEN Append(scheduled,
                        [service |-> "Additional Wear & Tear",
                         frequency |-> 1,
                         cost_per_service |-> wear_cost,
                         total_cost |-> wear_cost,
                         shop_type |-> shop_type,
                         interval_based |-> FALSE])
            ELSE scheduled
    IN  [year |-> year_data.year,
         total_mileage |-> year_data.total_mileage,
         starting_year_mileage |-> year_data.starting_year_mileage,
         ending_year_mileage |-> year_data.ending_year_mileage,
         services |-> adjusted_services,
         total_year_cost |-> TotalCost(adjusted_services),
         brand_multiplier |-> brand_multiplier,
         shop_multiplier |-> shop_multiplier,
         regional_multiplier |-> regional_multiplier]

\* _adjust_maintenance_schedule
adjust_maintenance_schedule(base_schedule, vehicle_make, shop_type, regional_multiplier) ==
    [i \in 1..Len(base_schedule) |->
        AdjustedYear(base_schedule[i], vehicle_make, shop_type,
                     ClampRegional(regional_multiplier))]

\* the depreciation the year loop re-derives from the schedule
RowDepreciation(year, purchase_price, depreciation_schedule) ==
    IF year <= Len(depreciation_schedule)
    THEN IF year = 1
         THEN purchase_price - depreciation_schedule[1].vehicle_value
         ELSE depreciation_schedule[year - 1].vehicle_value
              - depreciation_schedule[year].vehicle_value
    ELSE 0

\* the vehicle_value argument of calculate_annual_premium in year `year`
InsuredValue(year, purchase_price, depreciation_schedule) ==
    IF year <= Len(depreciation_schedule)
    THEN depreciation_schedule[year].vehicle_value
    ELSE purchase_price \div 2

\* one annual_breakdown row of a purchase.  premium and annual_fuel are what
\* the insurance and fuel estimators (outside the repository) return for the
\* year; insured_value is the vehicle_value the premium is asked for.
PurchaseRow(year, input_data, locals, adjusted_maintenance_schedule, financing_schedule, premium, annual_fuel) ==
    LET ownership_year == 2024 + year
        annual_depreciation ==
            RowDepreciation(year, locals.purchase_price, locals.depreciation_schedule)
        annual_maintenance ==
            IF year <= Len(adjusted_maintenance_schedule)
            THEN adjusted_maintenance_schedule[year].total_year_cost ELSE 0
        annual_financing ==
            IF financing_schedule # <<>> /\ year <= Len(financing_schedule)
            THEN financing_schedule[year].annual_payment ELSE 0
    IN  [year |-> year,
         ownership_year |-> ownership_year,
         vehicle_age |-> ownership_year - input_data.year,
         vehicle_model_year |-> input_data.year,
         cumulative_mileage |->
             locals.current_mileage + input_data.annual_mileage * year,
         depreciation |-> annual_depreciation,
         maintenance |-> annual_maintenance,
         insured_value |->
             InsuredValue(year, locals.purchase_price, locals.depreciation_schedule),
         insurance |-> premium,
         fuel_energy |-> annual_fuel,
         financing |-> annual_financing,
         total_annual_cost |-> annual_depreciation + annual_maintenance + premium
                               + annual_fuel + annual_financing]

\* sum of one column of the rows
Column(rows, field) == SumSeq([i \in 1..Len(rows) |-> rows[i][field]])

\* a total that would count depreciation as money spent
TotalOfAllCategories(category_totals) ==
    category_totals.depreciation + category_totals.maintenance
    + category_totals.insurance + category_totals.fuel_energy
    + category_totals.financing

\* out_of_pocket_total: the four categories, depreciation left out
OutOfPocketTotal(category_totals) ==
    category_totals.maintenance + category_totals.insurance
    + category_totals.fuel_energy + category_totals.financing

\* the year loop and the summary of _calculate_purchase_tco (from
\* "Calculate costs for each year" to the return)
purchase_cost_breakdown(input_data, locals, adjusted_maintenance_schedule, financing_schedule, premiums, annual_fuel) ==
    LET analysis_years == locals.analysis_years
        annual_breakdown ==
            [year \in 1..analysis_years |->
                PurchaseRow(year, input_data, locals, adjusted_maintenance_schedule,
                            financing_schedule, premiums[year], annual_fuel)]
        category_totals ==
            [depreciation |-> Column(annual_breakdown, "depreciation"),
             maintenance |-> Column(annual_breakdown, "maintenance"),
             insurance |-> Column(annual_breakdown, "insurance"),
             fuel_energy |-> Column(annual_breakdown, "fuel_energy"),
             financing |-> Column(annual_breakdown, "financing")]
        total_tco == category_totals.depreciation + category_totals.maintenance
                     + category_totals.insurance + category_totals.fuel_energy
                     + category_totals.financing
        out_of_pocket_total == OutOfPocketTotal(category_totals)
    IN  IF analysis_years = 0
        THEN \* average_annual_tco = total_tco / analysis_years
             [kind |-> "raised", exception |-> "ZeroDivisionError"]
        ELSE [kind |-> "result",
              transaction |-> "purchase",
              summary |->
                  [total_ownership_cost |-> out_of_pocket_total,
                   final_vehicle_value |->
                       IF Len(locals.depreciation_schedule) > 0
                       THEN locals.depreciation_schedule[
                                Len(locals.depreciation_schedule)].vehicle_value
                       ELSE MulPpm(locals.purchase_price, 150000),
                   total_depreciation |-> category_totals.depreciation,
                   purchase_price |-> locals.purchase_price,
                   is_used_vehicle |-> locals.current_mileage > 0,
                   total_tco_with_depreciation |-> total_tco,
                   out_of_pocket_total |-> out_of_pocket_total],
              annual_breakdown |-> annual_breakdown,
              category_totals |-> category_totals,
              depreciation_schedule |-> locals.depreciation_schedule,
              maintenance_schedule |-> adjusted_maintenance_schedule]

(***************************************************************************)
(* Estimators outside the repository, after their contracts                *)
(***************************************************************************)
\* annualPremium: a base amount plus a share (ppm) of the insured value
calculate_annual_premium(vehicle_value, value_rate) ==
    60000 + MulPpm(vehicle_value, value_rate)

\* annualFuelCost: (annualMileage / mpg) * fuelPrice, fuel_price in cents
calculate_annual_fuel_cost(annual_mileage, mpg, fuel_price) ==
    (annual_mileage * fuel_price) \div mpg

\* amortize for the interest-free case: payment = principal / n, no entry
\* after the loan term
calculate_loan_payments(loan_amount, loan_term_years, analysis_years) ==
    [year \in 1..Min(loan_term_years, analysis_years) |->
        [year |-> year, annual_payment |-> loan_amount \div loan_term_years]]

(***************************************************************************)
(* Used-vehicle estimator: utils/used_vehicle_estimator.py                 *)
(***************************************************************************)
\* UsedVehicleEstimator.is_used_vehicle, current_year being the year the
\* estimator was constructed in
is_used_vehicle(year, current_mileage, current_year) ==
    IF year < current_year THEN TRUE
    ELSE IF year = current_year /\ current_mileage > 1000 THEN TRUE
    ELSE FALSE

\* round(estimated_value, 0): to the nearest dollar, amounts in cents
RoundToDollar(cents) == ((cents + 50) \div 100) * 100

\* the last two statements of estimate_current_value: the floor at 10% of the
\* original MSRP and the rounding
FlooredEstimate(estimated_value, original_msrp) ==
    RoundToDollar(Max(estimated_value, original_msrp \div 10))

\* estimate_current_value, with the MSRP that _get_original_msrp found
estimate_current_value(make, model, year, original_msrp, current_mileage, current_year) ==
    LET vehicle_age == Max(current_year - year, 0)
        uncapped_annual_mileage ==
            IF vehicle_age > 0 THEN current_mileage \div vehicle_age
            ELSE current_mileage * 4
        estimated_annual_mileage == Min(uncapped_annual_mileage, 30000)
        depreciated_value ==
            IF vehicle_age = 0
            THEN LET mileage_factor == calculate_mileage_impact(estimated_annual_mileage)
                     depreciation_rate == Min(150000, current_mileage * 3)
                 IN  MulPpm(MulPpm(original_msrp, 1000000 - depreciation_rate),
                            mileage_factor)
            ELSE calculate_depreciation_schedule(
                     original_msrp, make, model, year, estimated_annual_mileage,
                     vehicle_age)[vehicle_age].vehicle_value
        \* current_mileage > estimated_annual_mileage * vehicle_age * 1.2, where
        \* the product is current_mileage * 1.2 unless the cap applied
        high_mileage ==
            IF vehicle_age > 0 /\ uncapped_annual_mileage <= 30000
            THEN current_mileage * 10 > current_mileage * 12
            ELSE current_mileage * 10 > estimated_annual_mileage * vehicle_age * 12
        excess_mileage_factor ==
            950000 - (current_mileage - 12000 * Max(vehicle_age, 1))
        estimated_value ==
            IF high_mileage
            THEN MulPpm(depreciated_value, Max(300000, excess_mileage_factor))
            ELSE depreciated_value
    IN  FlooredEstimate(estimated_value, original_msrp)

(***************************************************************************)
(* Session store: session_manager.py.  st.session_state is a function from *)
(* key to value; a dict is a function from its keys, the saved results a   *)
(* set of (key, value) entries with one entry per key                      *)
(***************************************************************************)
\* the empty dict {}
EmptyDict == [empty_dict |-> TRUE]

\* dict.update(data)
Update(d, data) ==
    [k \in DOMAIN d \cup DOMAIN data |-> IF k \in DOMAIN data THEN data[k] ELSE d[k]]

\* del st.session_state[key] for each key present
DeleteKeys(d, keys) == [k \in DOMAIN d \ keys |-> d[k]]

\* the value initialize_persistent_settings stores; fuel price and electricity
\* rate in cents
DefaultPersistentSettings ==
    [location |-> [zip_code |-> "", state |-> "", geography_type |-> "Suburban",
                   fuel_price |-> 350, electricity_rate |-> 12, is_set |-> FALSE],
     personal |-> [user_age |-> 35, gross_income |-> 6000000,
                   annual_mileage |-> 12000, driving_style |-> "normal",
                   terrain |-> "flat", num_household_vehicles |-> 2,
                   is_set |-> FALSE],
     insurance |-> [coverage_type |-> "standard", shop_type |-> "independent",
                    is_set |-> FALSE],
     analysis |-> [comparison_priority |-> "cost", default_analysis_years |-> 5,
                   is_set |-> FALSE]]

\* initialize_persistent_settings
initialize_persistent_settings(state) ==
    IF "persistent_settings" \in DOMAIN state THEN state
    ELSE Update(state, [persistent_settings |-> DefaultPersistentSettings])

\* the values initialize_session_state stores under the keys that are missing
SessionDefaults ==
    [comparison_vehicles |-> <<>>,
     comparison_results |-> {},
     current_vehicle |-> EmptyDict,
     current_results |-> EmptyDict,
     user_preferences |-> [comparison_priority |-> "cost", max_vehicles |-> 5,
                           default_years |-> 5],
     location_data |-> [zip_code |-> "", state |-> "", geography_type |-> "",
                        fuel_price |-> 0, electricity_rate |-> 0],
     calculation_complete |-> FALSE,
     show_comparison |-> FALSE,
     form_data |-> EmptyDict]

\* initialize_session_state: every missing key gets its default
initialize_session_state(state) ==
    initialize_persistent_settings(
        [k \in DOMAIN state \cup DOMAIN SessionDefaults |->
            IF k \in DOMAIN state THEN state[k] ELSE SessionDefaults[k]])

\* keys_to_clear of clear_session_state
SessionKeys ==
    {"comparison_vehicles", "comparison_results", "current_vehicle",
     "current_results", "location_data", "calculation_complete",
     "show_comparison", "form_data"}

\* clear_all_data
clear_all_data(state) ==
    initialize_session_state(
        DeleteKeys(state, SessionKeys \cup {"persistent_settings",
                                            "show_location_form", "show_personal_form",
                                            "show_insurance_form",
                                            "show_settings_summary"}))

\* a clear that would drop the persistent settings with the session data
ClearWithPersistentSettings(state) ==
    initialize_session_state(
        DeleteKeys(state, SessionKeys \cup {"persistent_settings"}))

\* clear_session_state
clear_session_state(state) ==
    initialize_session_state(DeleteKeys(state, SessionKeys))

\* save_persistent_setting
save_persistent_setting(state, category, data) ==
    LET s == initialize_persistent_settings(state)
    IN  [s EXCEPT !.persistent_settings[category] =
                      Update(Update(@, data), [is_set |-> TRUE])]

\* the key both save_calculation_results and get_calculation_results build:
\* f"{make}_{model}_{year}_{trim}_{transaction_type}"
VehicleKey(vehicle_data) ==
    vehicle_data.make \o "_" \o vehicle_data.model \o "_"
        \o ToString(vehicle_data.year) \o "_" \o vehicle_data.trim \o "_"
        \o vehicle_data.transaction_type

\* the duplicate test of add_vehicle_to_comparison
SameConfiguration(existing_vehicle, vehicle_data) ==
    /\ existing_vehicle.make = vehicle_data.make
    /\ existing_vehicle.model = vehicle_data.model
    /\ existing_vehicle.year = vehicle_data.year
    /\ existing_vehicle.trim = vehicle_data.trim
    /\ existing_vehicle.transaction_type = vehicle_data.transaction_type

\* an add that would append whatever the list holds
AppendUnchecked(state, vehicle_data) ==
    [state |-> [state EXCEPT !.comparison_vehicles = Append(@, vehicle_data)],
     ret |-> [ok |-> TRUE, message |-> "added"]]

\* add_vehicle_to_comparison: the store it leaves and the pair it returns
add_vehicle_to_comparison(state, vehicle_data) ==
    IF \E i \in 1..Len(state.comparison_vehicles) :
           SameConfiguration(state.comparison_vehicles[i], vehicle_data)
    THEN [state |-> state, ret |-> [ok |-> FALSE, message |-> "duplicate"]]
    ELSE IF Len(state.comparison_vehicles)
                >= Get(state.user_preferences, "max_vehicles", 5)
    THEN [state |-> state, ret |-> [ok |-> FALSE, message |-> "maximum"]]
    ELSE [state |-> [state EXCEPT !.comparison_vehicles = Append(@, vehicle_data)],
          ret |-> [ok |-> TRUE, message |-> "added"]]

\* list.pop(index) for 0 <= index < len: the list without that element
Pop(list, index) ==
    [i \in 1..(Len(list) - 1) |-> IF i <= index THEN list[i] ELSE list[i + 1]]

\* remove_vehicle_from_comparison, index counted from 0
remove_vehicle_from_comparison(state, index) ==
    IF 0 <= index /\ index < Len(state.comparison_vehicles)
    THEN LET removed_vehicle == state.comparison_vehicles[index + 1]
             vehicle_key == VehicleKey(removed_vehicle)
         IN  [state |-> [state EXCEPT
                            !.comparison_vehicles = Pop(@, index),
                            !.comparison_results =
                                {e \in @ : e.key # vehicle_key}],
              ret |-> [ok |-> TRUE, message |-> "removed"]]
    ELSE [state |-> state, ret |-> [ok |-> FALSE, message |-> "invalid index"]]

\* save_calculation_results: comparison_results[vehicle_key] = {...}
save_calculation_results(state, vehicle_data, results) ==
    LET vehicle_key == VehicleKey(vehicle_data)
    IN  [state EXCEPT !.comparison_results =
            {e \in @ : e.key # vehicle_key}
                \cup {[key |-> vehicle_key, vehicle_data |-> vehicle_data,
                       results |-> results]}]

\* get_calculation_results: comparison_results.get(vehicle_key)
get_calculation_results(state, vehicle_data) ==
    LET vehicle_key == VehicleKey(vehicle_data)
        found == {e \in state.comparison_results : e.key = vehicle_key}
    IN  IF found = {} THEN None
        ELSE LET e == CHOOSE x \in found : TRUE
             IN  [vehicle_data |-> e.vehicle_data, results |-> e.results]

(***************************************************************************)
(* Inputs of the model                                                     *)
(***************************************************************************)
\* last wall-clock year the model lets the clock reach
MaxClock == 2027
\* a horizon beyond the 15 years the product allows
MaxHorizon == 16
\* a horizon long enough for the used-vehicle floor to apply
LongHorizon == 40

ClockYears == 2025..MaxClock

\* vehicles, with the price (cents) each is offered at
Camry == [make |-> "Toyota", model |-> "Camry", year |-> 2026, price |-> 2800000]
Bmw3 == [make |-> "BMW", model |-> "3 Series", year |-> 2018, price |-> 1800000]
F150 == [make |-> "Ford", model |-> "F-150", year |-> 2027, price |-> 4500000]
Vehicles == {Camry, Bmw3, F150}

\* what get_vehicle_characteristics (outside the repository)
\* returns: a full record, and one without mpg and without reliability score
Characteristics ==
    {[mpg |-> 30, is_electric |-> FALSE, reliability_score |-> 42],
     [is_electric |-> FALSE]}

PurchaseInput(t, v, m, n, f, l) ==
    [transaction_type |-> t, make |-> v.make, model |-> v.model, year |-> v.year,
     price |-> v.price, trim_msrp |-> v.price, current_mileage |-> m,
     annual_mileage |-> 12000, analysis_years |-> n, zip_code |-> "90210",
     state |-> "CA", financing_type |-> f, loan_amount |-> l, interest_rate |-> 0,
     loan_term |-> 3, shop_type |-> "independent", fuel_price |-> 350,
     gross_income |-> 6000000]

PurchaseInputs ==
    {PurchaseInput("purchase", v, m, n, "cash", 0) :
        v \in Vehicles, m \in {0, 3000, 3001, 70000}, n \in {0, 5, MaxHorizon}}
    \cup {PurchaseInput("purchase", Camry, 0, 5, f, l) :
        f \in {"cash", "loan"}, l \in {0, 2000000}}
    \cup {PurchaseInput("rent", Camry, 0, n, "cash", 0) : n \in {-1, 5}}

LeaseInput(t, v, m, a, n) ==
    [transaction_type |-> t, make |-> v.make, model |-> v.model, year |-> v.year,
     trim_msrp |-> v.price, current_mileage |-> m, annual_mileage |-> a,
     analysis_years |-> n, zip_code |-> "90210", state |-> "CA",
     lease_monthly_payment |-> 35000, lease_mileage_limit |-> 12000,
     down_payment |-> 200000, fuel_price |-> 350, gross_income |-> 6000000]

LeaseInputs ==
    {LeaseInput("lease", v, m, a, n) :
        v \in {Camry, Bmw3}, m \in {0, 5000}, a \in {12000, 15000, 18000},
        n \in {-1, 0, 3, MaxHorizon}}
    \cup {LeaseInput("Lease", Camry, 0, 12000, 3)}

\* one lease in each geography type of a high-cost, a low-cost and another state
RegionalInputs ==
    {Update(LeaseInput("lease", Camry, 0, 12000, 3),
            [geography_type |-> g, state |-> z[1], zip_code |-> z[2]]) :
        g \in {"Urban", "Suburban", "Rural"},
        z \in {<<"CA", "90210">>, <<"MS", "39201">>, <<"TX", "75201">>}}

Inputs == PurchaseInputs \cup LeaseInputs \cup RegionalInputs

(***************************************************************************)
(* The orchestrator as a state machine: the clock advances, and the entry  *)
(* point is invoked with any input                                         *)
(***************************************************************************)
NoCall == [kind |-> "none"]

\* what an invocation at wall-clock year `now` leaves behind: the outcome, and
\* for the purchase path the local variables at the point where it ends
Invocation(input_data, vehicle_characteristics, now) ==
    [kind |-> "call",
     input |-> input_data,
     chars |-> vehicle_characteristics,
     now |-> now,
     outcome |-> calculate_total_cost_of_ownership(
                     input_data, vehicle_characteristics, now),
     locals |-> IF Lower(input_data.transaction_type) = "lease"
                THEN None ELSE PurchaseLocals(input_data, now)]

\* Invocation, tabulated once over the inputs of the model
Invocations ==
    [i \in Inputs, c \in Characteristics, y \in ClockYears |-> Invocation(i, c, y)]

Init ==
    /\ clock \in {2025, 2026}
    /\ call = NoCall
    /\ prev = NoCall
    /\ engine = NoCall
    /\ session_state = initialize_session_state(<<>>)
    /\ returned = NoCall

\* the wall clock passes into the next year
Tick ==
    /\ clock < MaxClock
    /\ clock' = clock + 1
    /\ UNCHANGED <<call, prev, engine, session_state, returned>>

\* one invocation of calculate_total_cost_of_ownership
Calculate(input_data, vehicle_characteristics) ==
    /\ call' = Invocations[input_data, vehicle_characteristics, clock]
    /\ prev' = IF /\ call.kind = "call"
                  /\ call.input = input_data
                  /\ call.chars = vehicle_characteristics
               THEN call ELSE NoCall
    /\ UNCHANGED <<clock, engine, session_state, returned>>

Next ==
    \/ Tick
    \/ \E i \in Inputs, c \in Characteristics : Calculate(i, c)

Spec == Init /\ [][Next]_vars

(***************************************************************************)
(* Display cleanup: ui/calculator_display.py, clean_maintenance_services   *)
(***************************************************************************)
\* str.strip() for blanks
RECURSIVE Strip(_)
Strip(s) ==
    IF s = "" THEN ""
    ELSE IF SubSeq(s, 1, 1) = " " THEN Strip(SubSeq(s, 2, Len(s)))
    ELSE IF SubSeq(s, Len(s), Len(s)) = " " THEN Strip(SubSeq(s, 1, Len(s) - 1))
    ELSE s

\* str.replace(c, '') for a single character c
RECURSIVE RemoveChar(_, _)
RemoveChar(s, c) ==
    IF s = "" THEN ""
    ELSE (IF SubSeq(s, 1, 1) = c THEN "" ELSE SubSeq(s, 1, 1))
         \o RemoveChar(SubSeq(s, 2, Len(s)), c)

\* normalized_name = service_name.lower().replace('(', '').replace(')', '').strip()
NormalizedName(service_name) ==
    Strip(RemoveChar(RemoveChar(Lower(service_name), "("), ")"))

\* a list entry that is not a dict
NotADict == [not_a_dict |-> TRUE]

\* isinstance(service, dict)
IsDict(service) == "not_a_dict" \notin DOMAIN service

\* total_cost = service.get('total_cost', service.get('cost', 0))
ServiceTotalCost(service) == Get(service, "total_cost", Get(service, "cost", 0))

\* the entry appended to valid_services
CleanedService(service) ==
    [service |-> Strip(Get(service, "service", "")),
     frequency |-> Get(service, "frequency", 1),
     total_cost |-> ServiceTotalCost(service),
     cost_per_service |-> Get(service, "cost_per_service", ServiceTotalCost(service)),
     type |-> Get(service, "type", "routine")]

\* a cleanup that would drop the invalid entries and keep every valid one
DropInvalidOnly(services) ==
    SelectSeq([i \in 1..Len(services) |->
                  IF IsDict(services[i]) THEN CleanedService(services[i]) ELSE NotADict],
              LAMBDA x : IsDict(x) /\ x.service # "" /\ x.total_cost > 0)

\* the loop of clean_maintenance_services from entry i on, with the names
\* seen so far
RECURSIVE CleanFrom(_, _, _)
CleanFrom(services, i, seen_services) ==
    IF i > Len(services) THEN <<>>
    ELSE LET service == services[i]
             rest == CleanFrom(services, i + 1, seen_services)
         IN  IF ~IsDict(service) THEN rest
             ELSE LET service_name == Strip(Get(service, "service", ""))
                      total_cost == ServiceTotalCost(service)
                      normalized_name == NormalizedName(service_name)
                  IN  IF service_name = "" \/ total_cost <= 0 THEN rest
                      ELSE IF normalized_name \in seen_services THEN rest
                      ELSE <<CleanedService(service)>>
                           \o CleanFrom(services, i + 1,
                                        seen_services \cup {normalized_name})

\* clean_maintenance_services(services)
clean_maintenance_services(services) == CleanFrom(services, 1, {})

(***************************************************************************)
(* The engines and the year loop of the purchase path, called directly:    *)
(* one call at a time, with arguments from bounded sets                    *)
(***************************************************************************)
Breakpoints == {100, 1000, 5000, 12000, 20000}

MileagePoints ==
    {0, 40000, 60000} \cup UNION {{b - 1, b, b + 1} : b \in Breakpoints}

\* make/model pairs, one unknown to every table
EngineVehicles ==
    {<<"Toyota", "Camry">>, <<"BMW", "3 Series">>, <<"Ford", "F-150">>,
     <<"Tesla", "Model 3">>, <<"Acme", "Roadster">>}

EngineValues == {1800000, 2800000}
EngineHorizons == {1, 5, MaxHorizon, LongHorizon}
EngineModelYears == {2012, 2018, 2021, 2024}
MaintenanceMileages == {0, 5000, 7500, 12000, 15000}
StartingMileages == {0, 5000, 7499, 70000}
MaintenanceHorizons == {1, 3, 5, MaxHorizon}
\* share of the insured value in the premium, ppm
PremiumRates == {0, 20000}

\* make/model pairs for the classification: several match more than one rule,
\* some match none
ClassifyPairs ==
    {<<"BMW", "i4">>, <<"Tesla", "Model S">>, <<"Porsche", "911">>,
     <<"Ford", "Mustang">>, <<"Ford", "F-150 Lightning">>, <<"Ford", "F-150">>,
     <<"Honda", "Ridgeline">>, <<"Mazda", "Mazda3">>, <<"Nissan", "Versa">>,
     <<"Toyota", "RAV4">>, <<"Honda", "Civic">>, <<"Kia", "Rio">>,
     <<"Toyota", "Camry">>, <<"toyota", "CAMRY">>, <<"Acme", "Roadster">>,
     <<"", "">>, <<"Chevrolet", "Silverado EV">>, <<"Jeep", "Grand Cherokee SUV">>,
     <<"Lexus", "RX 350">>, <<"Toyota", "Corolla">>}

\* arguments of the two schedule adjustments: makes with brand multipliers
\* 0.85, 1.35 and 1.0, and regional multipliers (ppm) from the lowest the
\* lookup can return (rural, low-cost state) to one above its highest
AdjustMakes == {"Toyota", "BMW", "Acme"}
ShopTypes == {"independent", "dealership", "diy"}
RegionalMultipliers == {765000, 1000000, 1265000, 1400000}
AdjustMileages == {12000, 15000}
AdjustHorizons == {3, 12}
AdjustStartingMileages == {0, 70000}

\* longest service list handed to the cleanup
MaxServices == 3

\* entries of the lists handed to the cleanup (cents): names that differ in
\* case, blanks and parentheses only, a blank name, costs of zero and
\* below, a cost under the key 'cost', an entry that is not a dict
CleanItems ==
    {[service |-> "Oil Change", frequency |-> 2, cost_per_service |-> 3250, total_cost |-> 6500],
     [service |-> " Oil Change ", total_cost |-> 7000],
     [service |-> "oil change ()", total_cost |-> 2000],
     [service |-> "Oil Change", total_cost |-> 0],
     [service |-> "  ", total_cost |-> 5000],
     [service |-> "Brake Inspection", total_cost |-> -500],
     [service |-> "Brake Inspection", cost |-> 5000],
     NotADict}

CleanLists == UNION {[1..n -> CleanItems] : n \in 0..MaxServices}

Called(fn, args, ret) == [kind |-> fn, args |-> args, ret |-> ret]

\* _calculate_purchase_tco from the maintenance schedule to the return, with
\* the maintenance engine called as its signature allows
purchase_tco_from_maintenance(input_data, vehicle_characteristics, regional_multiplier, now, value_rate) ==
    LET locals == PurchaseLocals(input_data, now)
        \* None when the call is not made: as falsy as the empty list at the
        \* one place the year loop reads it
        financing_schedule ==
            IF locals.financing_call = None THEN <<>>
            ELSE calculate_loan_payments(locals.financing_call.loan_amount,
                                         locals.financing_call.loan_term_years,
                                         locals.financing_call.analysis_years)
        base_maintenance_schedule ==
            get_maintenance_schedule(input_data.annual_mileage,
                                     locals.analysis_years, locals.current_mileage)
        adjusted_maintenance_schedule ==
            adjust_maintenance_schedule(base_maintenance_schedule, input_data.make,
                                        Get(input_data, "shop_type", "independent"),
                                        regional_multiplier)
        premiums ==
            [year \in 1..locals.analysis_years |->
                calculate_annual_premium(
                    InsuredValue(year, locals.purchase_price,
                                 locals.depreciation_schedule),
                    value_rate)]
        annual_fuel ==
            calculate_annual_fuel_cost(input_data.annual_mileage,
                                       Get(vehicle_characteristics, "mpg", 25),
                                       Get(input_data, "fuel_price", 350))
    IN  purchase_cost_breakdown(input_data, locals, adjusted_maintenance_schedule,
                                financing_schedule, premiums, annual_fuel)

EngineInit ==
    /\ clock \in {2025, 2026}
    /\ call = NoCall
    /\ prev = NoCall
    /\ engine = NoCall
    /\ session_state = initialize_session_state(<<>>)
    /\ returned = NoCall

\* _calculate_mileage_impact(annual_mileage)
MileageImpact(annual_mileage) ==
    /\ engine = NoCall
    /\ engine' = Called("calculate_mileage_impact",
                        [annual_mileage |-> annual_mileage],
                        calculate_mileage_impact(annual_mileage))
    /\ UNCHANGED <<clock, call, prev, session_state, returned>>

\* the segments a caller can name: the eight with a curve of their own and one
\* without, which falls back to the standard curve
CurveSegments == Segments \cup {"unclassified"}

\* _get_cumulative_depreciation_rate(year, segment)
CumulativeRate(year, segment) ==
    /\ engine = NoCall
    /\ engine' = Called("get_cumulative_depreciation_rate",
                        [year |-> year, segment |-> segment],
                        get_cumulative_depreciation_rate(year, segment))
    /\ UNCHANGED <<clock, call, prev, session_state, returned>>

\* gross incomes the personal form allows (15,000 to 500,000 dollars), cents
GrossIncomes == {1500000, 6000000, 50000000}

\* annual costs at, just under and just over a tenth of each income, cents
AnnualCosts ==
    {0, 1200000} \cup UNION {{g \div 10 - 1, g \div 10, g \div 10 + 1} : g \in GrossIncomes}

\* _calculate_affordability(annual_cost, gross_income, transaction_type)
Affordability(annual_cost, gross_income, transaction_type) ==
    /\ engine = NoCall
    /\ engine' = Called("calculate_affordability",
                        [annual_cost |-> annual_cost, gross_income |-> gross_income,
                         transaction_type |-> transaction_type],
                        calculate_affordability(annual_cost, gross_income,
                                                transaction_type))
    /\ UNCHANGED <<clock, call, prev, session_state, returned>>

\* model years and odometer readings given to the estimator
EstimatorYears == {2008, 2020, 2024, 2025, 2026, 2028}
EstimatorMileages == {0, 500, 6000, 40000, 120000, 250000}

\* UsedVehicleEstimator.estimate_current_value(make, model, year, trim,
\* current_mileage) for a vehicle whose original MSRP is known
EstimateCurrentValue(vehicle, year, original_msrp, current_mileage) ==
    /\ engine = NoCall
    /\ engine' = Called("estimate_current_value",
                        [make |-> vehicle[1], model |-> vehicle[2], year |-> year,
                         original_msrp |-> original_msrp,
                         current_mileage |-> current_mileage, now |-> clock],
                        estimate_current_value(vehicle[1], vehicle[2], year,
                                               original_msrp, current_mileage, clock))
    /\ UNCHANGED <<clock, call, prev, session_state, returned>>

\* _classify_vehicle_segment(make, model)
ClassifySegment(make, model) ==
    /\ engine = NoCall
    /\ engine' = Called("classify_vehicle_segment", [make |-> make, model |-> model],
                        classify_vehicle_segment(make, model))
    /\ UNCHANGED <<clock, call, prev, session_state, returned>>

\* calculate_depreciation_schedule(initial_value, make, model, model_year,
\* annual_mileage, years)
DepreciationSchedule(initial_value, vehicle, annual_mileage, years) ==
    /\ engine = NoCall
    /\ engine' = Called("calculate_depreciation_schedule",
                        [initial_value |-> initial_value, make |-> vehicle[1],
                         model |-> vehicle[2], annual_mileage |-> annual_mileage,
                         years |-> years],
                        calculate_depreciation_schedule(
                            initial_value, vehicle[1], vehicle[2], clock,
                            annual_mileage, years))
    /\ UNCHANGED <<clock, call, prev, session_state, returned>>

\* _calculate_realistic_used_vehicle_depreciation(input_data, initial_value,
\* analysis_years), which reads the clock
UsedDepreciation(make, model_year, initial_value, analysis_years) ==
    /\ engine = NoCall
    /\ engine' = Called("calculate_realistic_used_vehicle_depreciation",
                        [make |-> make, year |-> model_year,
                         initial_value |-> initial_value,
                         analysis_years |-> analysis_years, now |-> clock],
                        calculate_realistic_used_vehicle_depreciation(
                            make, model_year, initial_value, analysis_years, clock))
    /\ UNCHANGED <<clock, call, prev, session_state, returned>>

\* get_maintenance_schedule(annual_mileage, years, starting_mileage)
MaintenanceSchedule(annual_mileage, years, starting_mileage) ==
    /\ engine = NoCall
    /\ engine' = Called("get_maintenance_schedule",
                        [annual_mileage |-> annual_mileage, years |-> years,
                         starting_mileage |-> starting_mileage],
                        get_maintenance_schedule(annual_mileage, years,
                                                 starting_mileage))
    /\ UNCHANGED <<clock, call, prev, session_state, returned>>

\* _adjust_maintenance_schedule on the schedule the maintenance engine returns
AdjustMaintenance(annual_mileage, years, starting_mileage, vehicle_make, shop_type, regional_multiplier) ==
    /\ engine = NoCall
    /\ engine' = Called("adjust_maintenance_schedule",
                        [annual_mileage |-> annual_mileage, years |-> years,
                         starting_mileage |-> starting_mileage,
                         vehicle_make |-> vehicle_make, shop_type |-> shop_type,
                         regional_multiplier |-> regional_multiplier],
                        adjust_maintenance_schedule(
                            get_maintenance_schedule(annual_mileage, years,
                                                     starting_mileage),
                            vehicle_make, shop_type, regional_multiplier))
    /\ UNCHANGED <<clock, call, prev, session_state, returned>>

\* _adjust_lease_maintenance_schedule on the schedule the maintenance engine
\* returns
AdjustLeaseMaintenance(annual_mileage, years, starting_mileage, vehicle_make, regional_multiplier) ==
    /\ engine = NoCall
    /\ engine' = Called("adjust_lease_maintenance_schedule",
                        [annual_mileage |-> annual_mileage, years |-> years,
                         starting_mileage |-> starting_mileage,
                         vehicle_make |-> vehicle_make,
                         regional_multiplier |-> regional_multiplier],
                        adjust_lease_maintenance_schedule(
                            get_maintenance_schedule(annual_mileage, years,
                                                     starting_mileage),
                            vehicle_make, regional_multiplier))
    /\ UNCHANGED <<clock, call, prev, session_state, returned>>

\* clean_maintenance_services(services)
CleanServices(services) ==
    /\ engine = NoCall
    /\ engine' = Called("clean_maintenance_services", [services |-> services],
                        clean_maintenance_services(services))
    /\ UNCHANGED <<clock, call, prev, session_state, returned>>

\* the purchase path from the maintenance schedule on
PurchaseYearLoop(input_data, vehicle_characteristics, value_rate) ==
    /\ engine = NoCall
    /\ engine' = Called("purchase_tco_from_maintenance",
                        [input |-> input_data, chars |-> vehicle_characteristics,
                         value_rate |-> value_rate, now |-> clock],
                        purchase_tco_from_maintenance(
                            input_data, vehicle_characteristics,
                            get_regional_cost_multiplier(
                                Get(input_data, "zip_code", ""),
                                Get(input_data, "state", "")),
                            clock, value_rate))
    /\ UNCHANGED <<clock, call, prev, session_state, returned>>

\* the call returns to its caller
Return ==
    /\ engine # NoCall
    /\ engine' = NoCall
    /\ UNCHANGED <<clock, call, prev, session_state, returned>>

EngineNext ==
    \/ Tick
    \/ Return
    \/ \E m \in MileagePoints : MileageImpact(m)
    \/ \E e \in ClassifyPairs : ClassifySegment(e[1], e[2])
    \/ \E e \in EngineVehicles, y \in EstimatorYears, m \in EstimatorMileages :
          EstimateCurrentValue(e, y, 2800000, m)
    \/ \E a \in AnnualCosts, g \in GrossIncomes, t \in {"purchase", "lease"} :
          Affordability(a, g, t)
    \/ \E y \in 1..LongHorizon, g \in CurveSegments : CumulativeRate(y, g)
    \/ \E v \in EngineValues, e \in EngineVehicles,
          m \in {0, 12000, 25000}, n \in EngineHorizons :
              DepreciationSchedule(v, e, m, n)
    \/ \E e \in EngineVehicles, y \in EngineModelYears, v \in EngineValues,
          n \in EngineHorizons : UsedDepreciation(e[1], y, v, n)
    \/ \E a \in MaintenanceMileages, n \in MaintenanceHorizons,
          s \in StartingMileages : MaintenanceSchedule(a, n, s)
    \/ \E a \in AdjustMileages, n \in AdjustHorizons, s \in AdjustStartingMileages,
          k \in AdjustMakes, t \in ShopTypes, r \in RegionalMultipliers :
              AdjustMaintenance(a, n, s, k, t, r)
    \/ \E a \in AdjustMileages, n \in AdjustHorizons, s \in AdjustStartingMileages,
          k \in AdjustMakes, r \in RegionalMultipliers :
              AdjustLeaseMaintenance(a, n, s, k, r)
    \/ \E l \in CleanLists : CleanServices(l)
    \/ \E i \in PurchaseInputs, c \in Characteristics, r \in PremiumRates :
          PurchaseYearLoop(i, c, r)

EngineSpec == EngineInit /\ [][EngineNext]_vars

(***************************************************************************)
(* The session store as a state machine: one action per session_manager    *)
(* call or UI handler, with arguments from bounded sets                    *)
(***************************************************************************)
VehicleData(make, model, year, trim, transaction_type, price, annual_mileage) ==
    [make |-> make, model |-> model, year |-> year, trim |-> trim,
     transaction_type |-> transaction_type, price |-> price,
     annual_mileage |-> annual_mileage]

CamryLE == VehicleData("Toyota", "Camry", 2024, "LE", "Purchase", 2800000, 12000)
\* the same vehicle in another scenario: another price and mileage
CamryLEOtherScenario ==
    VehicleData("Toyota", "Camry", 2024, "LE", "Purchase", 3000000, 15000)
CivicLX == VehicleData("Honda", "Civic", 2024, "LX", "Purchase", 2400000, 12000)

\* six configurations, one more than the default max_vehicles
ComparisonVehicles ==
    {CamryLE, CivicLX,
     VehicleData("Toyota", "Camry", 2024, "LE", "Lease", 2800000, 12000),
     VehicleData("Ford", "F-150", 2023, "XLT", "Purchase", 4500000, 12000),
     VehicleData("BMW", "3 Series", 2022, "330i", "Lease", 4400000, 10000),
     VehicleData("Tesla", "Model 3", 2024, "Base", "Purchase", 3900000, 12000)}

SessionVehicles == {CamryLE, CamryLEOtherScenario, CivicLX}

\* indexes passed to remove_vehicle_from_comparison
RemoveIndexes == -1..5

\* (category, data) pairs passed to save_persistent_setting
PersistentInputs ==
    {<<"location", [zip_code |-> "90210", state |-> "CA"]>>,
     <<"personal", [gross_income |-> 8000000]>>,
     <<"insurance", [shop_type |-> "dealership"]>>,
     <<"analysis", [default_analysis_years |-> 10]>>}

\* the results of the calculation for a scenario, by what they depend on
ResultsFor(vehicle_data) ==
    [price |-> vehicle_data.price, annual_mileage |-> vehicle_data.annual_mileage]

Returned(fn, args, value) == [kind |-> fn, args |-> args, value |-> value]

SessionInit ==
    /\ clock = 2025
    /\ call = NoCall
    /\ prev = NoCall
    /\ engine = NoCall
    /\ session_state = initialize_session_state(<<>>)
    /\ returned = NoCall

\* add_vehicle_to_comparison(vehicle_data)
AddVehicle(vehicle_data) ==
    LET r == add_vehicle_to_comparison(session_state, vehicle_data)
    IN  /\ session_state' = r.state
        /\ returned' = Returned("add_vehicle_to_comparison",
                                [vehicle_data |-> vehicle_data], r.ret)
        /\ UNCHANGED <<clock, call, prev, engine>>

\* remove_vehicle_from_comparison(index)
RemoveVehicle(index) ==
    LET r == remove_vehicle_from_comparison(session_state, index)
    IN  /\ session_state' = r.state
        /\ returned' = Returned("remove_vehicle_from_comparison",
                                [index |-> index], r.ret)
        /\ UNCHANGED <<clock, call, prev, engine>>

\* the Calculate handler of the calculator page: it stores the scenario and
\* its results as current, then calls save_calculation_results
CalculateTCO(vehicle_data) ==
    LET results == ResultsFor(vehicle_data)
        stored == [session_state EXCEPT !.current_vehicle = vehicle_data,
                                        !.current_results = results,
                                        !.calculation_complete = TRUE]
    IN  /\ session_state' = save_calculation_results(stored, vehicle_data, results)
        /\ returned' = Returned("save_calculation_results",
                                [vehicle_data |-> vehicle_data], None)
        /\ UNCHANGED <<clock, call, prev, engine>>

\* get_calculation_results(vehicle_data)
GetResults(vehicle_data) ==
    /\ returned' = Returned("get_calculation_results",
                            [vehicle_data |-> vehicle_data],
                            get_calculation_results(session_state, vehicle_data))
    /\ UNCHANGED <<clock, call, prev, engine, session_state>>

\* save_persistent_setting(category, data)
SavePersistentSetting(category, data) ==
    /\ session_state' = save_persistent_setting(session_state, category, data)
    /\ returned' = Returned("save_persistent_setting", [category |-> category], None)
    /\ UNCHANGED <<clock, call, prev, engine>>

\* clear_session_state()
ClearSessionState ==
    /\ session_state' = clear_session_state(session_state)
    /\ returned' = Returned("clear_session_state", None, None)
    /\ UNCHANGED <<clock, call, prev, engine>>

\* clear_all_data()
ClearAllData ==
    /\ session_state' = clear_all_data(session_state)
    /\ returned' = Returned("clear_all_data", None, None)
    /\ UNCHANGED <<clock, call, prev, engine>>

\* the comparison list and the saved results, with six configurations
ComparisonNext ==
    \/ \E v \in ComparisonVehicles : AddVehicle(v)
    \/ \E i \in RemoveIndexes : RemoveVehicle(i)
    \/ \E v \in {CamryLE, CivicLX} : CalculateTCO(v)
    \/ \E v \in {CamryLE} : GetResults(v)
    \/ ClearSessionState

ComparisonSpec == SessionInit /\ [][ComparisonNext]_vars

\* the whole store, with three configurations
SessionNext ==
    \/ \E v \in SessionVehicles : AddVehicle(v)
    \/ \E i \in RemoveIndexes : RemoveVehicle(i)
    \/ \E v \in SessionVehicles : CalculateTCO(v)
    \/ \E v \in SessionVehicles : GetResults(v)
    \/ \E e \in PersistentInputs : SavePersistentSetting(e[1], e[2])
    \/ ClearSessionState
    \/ ClearAllData

SessionSpec == SessionInit /\ [][SessionNext]_vars

(***************************************************************************)
(* Properties                                                              *)
(***************************************************************************)
\* the annual_depreciation amounts of a schedule, summed
TotalDepreciation(schedule) ==
    SumSeq([i \in 1..Len(schedule) |-> schedule[i].annual_depreciation])

\* the occurrences of one service in a year's service list
Occurrences(services, service) ==
    SumSeq([i \in 1..Len(services) |->
               IF services[i].service = service THEN services[i].frequency ELSE 0])

PurchaseResult ==
    /\ engine.kind = "purchase_tco_from_maintenance"
    /\ engine.ret.kind = "result"

\* C1: in a purchase result, out_of_pocket_total is the sum over the rows of
\* maintenance, insurance, fuel/energy and financing, and
\* total_tco_with_depreciation exceeds it by exactly the sum of the rows'
\* depreciation, which is category_totals.depreciation.
C1_OutOfPocketExcludesDepreciation ==
    PurchaseResult =>
        LET r == engine.ret
            rows == r.annual_breakdown
        IN  /\ r.summary.out_of_pocket_total =
                   SumSeq([i \in 1..Len(rows) |->
                              rows[i].maintenance + rows[i].insurance
                              + rows[i].fuel_energy + rows[i].financing])
            /\ r.summary.total_tco_with_depreciation - r.summary.out_of_pocket_total
                   = r.category_totals.depreciation
            /\ r.category_totals.depreciation = Column(rows, "depreciation")

C1_Witness ==
    /\ PurchaseResult
    /\ Len(engine.ret.annual_breakdown) >= 5
    /\ engine.ret.category_totals.depreciation > 0
    /\ engine.ret.category_totals.maintenance > 0
    /\ engine.ret.category_totals.insurance > 0
    /\ engine.ret.category_totals.fuel_energy > 0
    /\ engine.ret.category_totals.financing > 0

\* C2: the annual_depreciation amounts of a schedule of N >= 1 years sum to the
\* initial value minus the year-N vehicle_value, for the new-vehicle schedule,
\* for the used-vehicle schedule, and for the depreciation column the year
\* loop re-derives from the schedule it was given.
C2_DepreciationTelescopes ==
    /\ /\ engine.kind \in {"calculate_depreciation_schedule",
                           "calculate_realistic_used_vehicle_depreciation"}
       /\ Len(engine.ret) >= 1
       => TotalDepreciation(engine.ret) =
              engine.args.initial_value - engine.ret[Len(engine.ret)].vehicle_value
    /\ PurchaseResult /\ Len(engine.ret.depreciation_schedule) >= 1 =>
           LET r == engine.ret
               n == Len(r.depreciation_schedule)
           IN  /\ n = Len(r.annual_breakdown)
               /\ r.category_totals.depreciation =
                      r.summary.purchase_price - r.depreciation_schedule[n].vehicle_value
               /\ TotalDepreciation(r.depreciation_schedule) =
                      r.category_totals.depreciation

C2_Witness ==
    /\ engine.kind = "calculate_depreciation_schedule"
    /\ Len(engine.ret) >= 5
    /\ \A k \in 1..5 : engine.ret[k].annual_depreciation > 0
    /\ engine.ret[5].vehicle_value < engine.ret[1].vehicle_value

\* C3: for every service of the interval table, the frequencies the schedule
\* lists for it over years 1..N sum to
\* floor((starting + N * annual) / interval) - floor(starting / interval).
C3_OccurrencesMatchLifetimeCount ==
    engine.kind = "get_maintenance_schedule" =>
        \A i \in 1..Len(service_intervals) :
            LET s == service_intervals[i]
                final_mileage == engine.args.starting_mileage
                                 + engine.args.years * engine.args.annual_mileage
            IN  SumSeq([y \in 1..Len(engine.ret) |->
                           Occurrences(engine.ret[y].services, s.service)])
                = (final_mileage \div s.interval)
                  - (engine.args.starting_mileage \div s.interval)

C3_Witness ==
    /\ engine.kind = "get_maintenance_schedule"
    /\ engine.args.starting_mileage = 7499
    /\ engine.args.annual_mileage = 5000
    /\ engine.args.years >= 3
    /\ Occurrences(engine.ret[1].services, "Oil Change") = 1
    /\ Occurrences(engine.ret[2].services, "Oil Change") = 1
    /\ Occurrences(engine.ret[3].services, "Oil Change") = 0

\* the multiplier the curve is described to take at a breakpoint, ppm
BreakpointValue(b) ==
    CASE b = 100 -> 600000
      [] b = 1000 -> 750000
      [] b = 5000 -> 850000
      [] b = 12000 -> 1000000
      [] b = 20000 -> 1250000

\* C4: one mile above a breakpoint the mileage multiplier is within one
\* mile's slope (under 200 ppm on every segment) of the breakpoint's value, and
\* at the breakpoint it is that value.
C4_ContinuousAtBreakpoints ==
    engine.kind = "calculate_mileage_impact" =>
        /\ engine.args.annual_mileage \in Breakpoints =>
               engine.ret = BreakpointValue(engine.args.annual_mileage)
        /\ engine.args.annual_mileage - 1 \in Breakpoints =>
               LET d == engine.ret - BreakpointValue(engine.args.annual_mileage - 1)
               IN  -200 <= d /\ d <= 200

\* C5: a second invocation with the input of the one before it returns what
\* the first returned.
C5_SameInputSameResult ==
    prev.kind = "call" => prev.outcome = call.outcome

\* the model year and the odometer ask for the used-vehicle schedule
UsedByModelYear(input_data, now) ==
    \/ input_data.year < now
    \/ input_data.year = now /\ input_data.current_mileage > 3000

PurchaseCall ==
    /\ call.kind = "call"
    /\ Lower(call.input.transaction_type) # "lease"

\* C6: a purchase calculation selects the used-vehicle schedule, started from
\* the purchase price, exactly when the model year is before the current year,
\* or equal to it with more than 3000 miles; otherwise it selects the
\* new-vehicle schedule.  A 2018 model with 70,000 miles gets the used one.
C6_UsedScheduleSelection ==
    PurchaseCall =>
        LET l == call.locals
            schedule == l.depreciation_schedule
        IN  /\ l.depreciation_model = "used" <=> UsedByModelYear(call.input, call.now)
            /\ l.analysis_years >= 1 =>
                   IF UsedByModelYear(call.input, call.now)
                   THEN /\ "ownership_year" \in DOMAIN schedule[1]
                        /\ schedule[1].vehicle_value + schedule[1].annual_depreciation
                               = call.input.price
                   ELSE "segment" \in DOMAIN schedule[1]
            /\ call.input.year = 2018 /\ call.input.current_mileage = 70000
                   => l.depreciation_model = "used"

C6_Witness ==
    /\ PurchaseCall
    /\ call.input.year = 2018
    /\ call.input.current_mileage = 70000
    /\ call.input.analysis_years = 5
    /\ call.locals.depreciation_model = "used"
    /\ call.locals.depreciation_schedule[5].vehicle_value < call.input.price

\* C7: in the used-vehicle schedule every vehicle_value is at least 15% of the
\* purchase price and at most the value of the year before, and every
\* annual_depreciation is the value of the year before minus the new value.
C7_UsedScheduleFloor ==
    engine.kind = "calculate_realistic_used_vehicle_depreciation" =>
        \A k \in 1..Len(engine.ret) :
            LET previous == IF k = 1 THEN engine.args.initial_value
                            ELSE engine.ret[k - 1].vehicle_value
            IN  /\ engine.ret[k].vehicle_value * 100 >= engine.args.initial_value * 15
                /\ engine.ret[k].vehicle_value <= previous
                /\ engine.ret[k].annual_depreciation
                       = previous - engine.ret[k].vehicle_value

\* the floor applies in some year: the rate would have taken the value lower
C7_Witness ==
    /\ engine.kind = "calculate_realistic_used_vehicle_depreciation"
    /\ \E k \in 2..Len(engine.ret) :
           /\ engine.ret[k].vehicle_value * 100 = engine.args.initial_value * 15
           /\ engine.ret[k].annual_depreciation > 0
           /\ engine.ret[k].annual_depreciation
                  < MulPpm(engine.ret[k - 1].vehicle_value,
                           engine.ret[k].depreciation_rate)

LeaseResult ==
    /\ call.kind = "call"
    /\ Lower(call.input.transaction_type) = "lease"
    /\ call.outcome.kind = "result"

\* C8: in every year of a lease the vehicle value handed to the insurance
\* estimator is a depreciated value: below the MSRP, and from the second year
\* on below the value of the year before.
C8_LeaseInsuresDepreciatedValue ==
    LeaseResult =>
        \A k \in 1..Len(call.outcome.annual_breakdown) :
            LET rows == call.outcome.annual_breakdown
            IN  /\ rows[k].insurance_args.vehicle_value < call.input.trim_msrp
                /\ k > 1 => rows[k].insurance_args.vehicle_value
                                < rows[k - 1].insurance_args.vehicle_value

\* C9: the annual breakdown and the maintenance schedule of a result have
\* between 1 and 15 entries, whatever analysis_years was supplied.
C9_HorizonClamped ==
    call.kind = "call" /\ call.outcome.kind = "result" =>
        /\ Len(call.outcome.annual_breakdown) \in 1..15
        /\ Len(call.outcome.maintenance_schedule) \in 1..15

\* C10: with a transaction type other than purchase and lease, or with a
\* horizon of zero or less, the invocation returns an error result.
C10_InvalidInputGivesErrorResult ==
    /\ call.kind = "call"
    /\ \/ Lower(call.input.transaction_type) \notin {"purchase", "lease"}
       \/ call.input.analysis_years <= 0
    => call.outcome.kind = "error"

\* a lease result whose annual mileage is above the mileage limit
LeaseOverLimit ==
    /\ LeaseResult
    /\ call.input.annual_mileage > call.input.lease_mileage_limit

\* C11 as stated: in a lease driven over the limit every year's fees_penalties
\* is positive and proportional to the excess miles, so that it is to the fee
\* of a 3000-mile excess as the excess is to 3000.
C11_FeeProportionalToExcess ==
    LeaseOverLimit =>
        \A k \in 1..Len(call.outcome.annual_breakdown) :
            LET limit == call.input.lease_mileage_limit
                excess == call.input.annual_mileage - limit
                reference == calculate_lease_fees_and_penalties(
                                 limit + 3000, limit, k, call.input.trim_msrp)
            IN  /\ call.outcome.annual_breakdown[k].fees_penalties > 0
                /\ call.outcome.annual_breakdown[k].fees_penalties * 3000
                       = reference * excess

\* C11 amended: in a lease driven over the limit every year's fees_penalties
\* is positive and is 0.20 per excess mile plus a wear-and-tear amount of 0.1%
\* of the MSRP: the part above the wear-and-tear amount is proportional to
\* the excess.
C11_FeeIsOveragePlusWear ==
    LeaseOverLimit =>
        \A k \in 1..Len(call.outcome.annual_breakdown) :
            LET excess == call.input.annual_mileage - call.input.lease_mileage_limit
                fee == call.outcome.annual_breakdown[k].fees_penalties
            IN  /\ fee > 0
                /\ fee - (call.input.trim_msrp \div 1000) = 20 * excess

C11_Witness ==
    /\ LeaseOverLimit
    /\ call.input.annual_mileage - call.input.lease_mileage_limit = 6000
    /\ Len(call.outcome.annual_breakdown) = 3
    /\ call.outcome.annual_breakdown[3].fees_penalties = 120000 + 2800

\* C12: a purchase with loan_amount = 0 completes, and its result has
\* financing 0 in every annual row and in the category total.
C12_ZeroPrincipalNoFinancing ==
    PurchaseCall /\ call.input.loan_amount = 0 =>
        /\ call.outcome.kind = "result"
        /\ \A k \in 1..Len(call.outcome.annual_breakdown) :
               call.outcome.annual_breakdown[k].financing = 0
        /\ call.outcome.category_totals.financing = 0

\* the cap each segment is described to have, ppm
SegmentCap(segment) ==
    CASE segment = "luxury" -> 950000
      [] segment = "electric" -> 960000
      [] segment = "truck" -> 850000
      [] segment = "suv" -> 880000
      [] segment = "sports" -> 900000
      [] segment = "compact" -> 910000
      [] segment = "sedan" -> 920000
      [] segment = "economy" -> 940000

\* curve[year] * brand multiplier * mileage multiplier of a schedule entry, ppm
EntryProduct(entry) ==
    MulPpm(get_cumulative_depreciation_rate(entry.year, entry.segment)
               * entry.brand_multiplier,
           entry.mileage_multiplier) \div 10

\* C13: in every year of the new-vehicle schedule depreciation_rate is the
\* smaller of curve[year] * brand multiplier * mileage multiplier and the
\* segment's cap, the brand multiplier is 1.0 for a make absent from the
\* tables, vehicle_value is initial_value * (1 - rate), at least
\* initial_value * (1 - cap) and at most the value of the year before.
C13_RateIsCappedProduct ==
    engine.kind = "calculate_depreciation_schedule" =>
        \A k \in 1..Len(engine.ret) :
            LET entry == engine.ret[k]
                initial_value == engine.args.initial_value
                cap == SegmentCap(entry.segment)
            IN  /\ entry.year = k
                /\ entry.depreciation_rate = Min(EntryProduct(entry), cap)
                /\ entry.mileage_multiplier
                       = calculate_mileage_impact(engine.args.annual_mileage)
                /\ engine.args.make = "Acme" => entry.brand_multiplier = 10000
                /\ entry.vehicle_value
                       = MulPpm(initial_value, 1000000 - entry.depreciation_rate)
                /\ entry.vehicle_value >= MulPpm(initial_value, 1000000 - cap)
                /\ k > 1 => entry.vehicle_value <= engine.ret[k - 1].vehicle_value

\* the cap decides the rate of a late year and not that of the first
C13_Witness ==
    /\ engine.kind = "calculate_depreciation_schedule"
    /\ Len(engine.ret) >= MaxHorizon
    /\ engine.ret[1].depreciation_rate < SegmentCap(engine.ret[1].segment)
    /\ \E k \in 2..Len(engine.ret) :
           /\ engine.ret[k].depreciation_rate = SegmentCap(engine.ret[k].segment)
           /\ EntryProduct(engine.ret[k]) > SegmentCap(engine.ret[k].segment)

\* the rules of the classification in their priority order, each with the
\* segment it gives
SegmentRules == <<"electric", "luxury", "sports", "truck", "suv", "compact", "economy">>

\* the rule of a segment matches the make or the model, case ignored
RuleMatches(segment, make, model) ==
    CASE segment = "electric" ->
             AnyTermIn(ev_terms, Lower(model)) \/ Lower(make) \in ev_makes
      [] segment = "luxury" -> Lower(make) \in luxury_brands
      [] segment = "sports" -> AnyTermIn(sports_terms, Lower(model))
      [] segment = "truck" -> AnyTermIn(truck_terms, Lower(model))
      [] segment = "suv" -> AnyTermIn(suv_terms, Lower(model))
      [] segment = "compact" -> AnyTermIn(compact_terms, Lower(model))
      [] segment = "economy" -> AnyTermIn(economy_terms, Lower(model))

\* C14: the classification returns one of the eight segments: that of the
\* first rule, in the priority order, that matches, and sedan when none does.
C14_FirstMatchingRule ==
    engine.kind = "classify_vehicle_segment" =>
        LET make == engine.args.make
            model == engine.args.model
            matching == {i \in 1..Len(SegmentRules) :
                            RuleMatches(SegmentRules[i], make, model)}
        IN  /\ engine.ret \in {SegmentRules[i] : i \in 1..Len(SegmentRules)}
                                  \cup {"sedan"}
            /\ IF matching = {} THEN engine.ret = "sedan"
               ELSE \E i \in matching :
                        /\ \A j \in matching : i <= j
                        /\ engine.ret = SegmentRules[i]

\* an electric model of a luxury brand: two rules match, the first decides
C14_Witness ==
    /\ engine.kind = "classify_vehicle_segment"
    /\ RuleMatches("electric", engine.args.make, engine.args.model)
    /\ RuleMatches("luxury", engine.args.make, engine.args.model)
    /\ engine.ret = "electric"

\* the engine call returned a maintenance schedule: the base schedule or one
\* of the two adjusted ones
MaintenanceScheduleReturned ==
    engine.kind \in {"get_maintenance_schedule", "adjust_maintenance_schedule",
                     "adjust_lease_maintenance_schedule"}

\* C15: in every year of a maintenance schedule, base or adjusted for purchase
\* or lease, each service has total_cost = cost_per_service * frequency and
\* total_year_cost is the sum of the services' total_cost, wear item included.
C15_MaintenanceTotalsAddUp ==
    MaintenanceScheduleReturned =>
        \A y \in 1..Len(engine.ret) :
            LET services == engine.ret[y].services
            IN  /\ \A i \in 1..Len(services) :
                       services[i].total_cost
                           = services[i].cost_per_service * services[i].frequency
                /\ engine.ret[y].total_year_cost
                       = SumSeq([i \in 1..Len(services) |-> services[i].total_cost])

\* an adjusted purchase year with a service done twice and the wear item
C15_Witness ==
    /\ engine.kind = "adjust_maintenance_schedule"
    /\ \E y \in 4..Len(engine.ret) :
           LET services == engine.ret[y].services
           IN  /\ \E i \in 1..Len(services) : services[i].frequency = 2
               /\ services[Len(services)].service = "Additional Wear & Tear"
               /\ engine.ret[y].total_year_cost > services[Len(services)].total_cost

\* no two entries of a service list have the same normalized name
DistinctNames(services) ==
    Cardinality({NormalizedName(services[i].service) : i \in 1..Len(services)})
        = Len(services)

\* entry i of a list is one the cleanup has to keep: a dict with a name and a
\* positive cost, the first such entry with its normalized name
FirstValid(services, i) ==
    LET valid(k) == /\ IsDict(services[k])
                    /\ Strip(Get(services[k], "service", "")) # ""
                    /\ ServiceTotalCost(services[k]) > 0
        name(k) == NormalizedName(Get(services[k], "service", ""))
    IN  /\ valid(i)
        /\ name(i) \notin {name(k) : k \in {j \in 1..(i - 1) : valid(j)}}

\* C16: a year's service list of the maintenance engine and of both
\* adjustments has no two entries with the same normalized name; and the
\* cleanup returns, in their original order, exactly the first valid entry of
\* each normalized name: no empty name, no cost of zero or less, no name twice.
C16_NoDuplicateServices ==
    /\ MaintenanceScheduleReturned =>
           \A y \in 1..Len(engine.ret) : DistinctNames(engine.ret[y].services)
    /\ engine.kind = "clean_maintenance_services" =>
           LET services == engine.args.services
               kept == {i \in 1..Len(services) : FirstValid(services, i)}
           IN  /\ \A k \in 1..Len(engine.ret) :
                      /\ engine.ret[k].service # ""
                      /\ engine.ret[k].total_cost > 0
               /\ DistinctNames(engine.ret)
               /\ Len(engine.ret) = Cardinality(kept)
               /\ \A k \in 1..Len(engine.ret) :
                      \E i \in kept :
                          /\ Cardinality({j \in kept : j <= i}) = k
                          /\ engine.ret[k].service = Strip(services[i].service)
                          /\ engine.ret[k].total_cost = ServiceTotalCost(services[i])

\* a list whose second and third entries repeat the name of the first in
\* another spelling: one entry is returned
C16_Witness ==
    /\ engine.kind = "clean_maintenance_services"
    /\ Len(engine.args.services) = 3
    /\ \A i \in 1..3 :
           /\ IsDict(engine.args.services[i])
           /\ ServiceTotalCost(engine.args.services[i]) > 0
           /\ NormalizedName(Get(engine.args.services[i], "service", "")) = "oil change"
    /\ engine.args.services[1].service # engine.args.services[2].service
    /\ Len(engine.ret) = 1
    /\ engine.ret[1].total_cost = ServiceTotalCost(engine.args.services[1])

\* C17: in every year of a schedule adjusted for purchase or for lease, the
\* regional multiplier applied to the costs lies between 0.8 and 1.3.
C17_RegionalMultiplierBounded ==
    engine.kind \in {"adjust_maintenance_schedule",
                     "adjust_lease_maintenance_schedule"} =>
        \A y \in 1..Len(engine.ret) :
            /\ engine.ret[y].regional_multiplier >= 800000
            /\ engine.ret[y].regional_multiplier <= 1300000

\* the wear items of a year's service list
WearItems(services) ==
    SelectSeq(services, LAMBDA x : x.service = "Additional Wear & Tear")

\* C18: in the schedule adjusted for purchase, a year carries a wear item
\* exactly when it is beyond year 3 and the bracket base cost times the
\* year's brand, shop-type and regional multipliers exceeds 100, and the wear
\* item costs that product; the shop-type multiplier is the one applied to the
\* year's scheduled services, 0.5 for diy.
C18_WearUsesScheduleFactors ==
    engine.kind = "adjust_maintenance_schedule" =>
        \A y \in 1..Len(engine.ret) :
            LET entry == engine.ret[y]
                wear == WearItems(entry.services)
                expected == MulPpm(BaseWearCost(entry.year) * entry.brand_multiplier
                                       * entry.shop_multiplier,
                                   entry.regional_multiplier) \div 10000
            IN  /\ entry.shop_multiplier = ShopMultiplier(engine.args.shop_type)
                /\ Len(wear) = (IF entry.year > 3 /\ expected > 10000 THEN 1 ELSE 0)
                /\ Len(wear) = 1 => wear[1].total_cost = expected

\* the cost per occurrence the engine lists for a service, cents
BaseCostOf(service) ==
    LET i == CHOOSE j \in 1..Len(service_intervals) :
                 service_intervals[j].service = service
    IN  service_intervals[i].cost

\* base cost * brand (hundredths) * shop (hundredths) * regional (ppm)
\* * (1 - discount), discount in tenths
DiscountedCost(base_cost, brand, shop, regional, discount) ==
    ((MulPpm(base_cost * brand * (shop \div 5), regional) \div 2000)
         * (10 - discount)) \div 10

\* the warranty discount described for a lease year, tenths
DescribedDiscount(lease_year) ==
    IF lease_year <= 2 THEN 6 ELSE IF lease_year = 3 THEN 4 ELSE 2

\* C19: in the schedule adjusted for a lease, each scheduled service costs per
\* occurrence base cost * brand multiplier * 1.15 * regional multiplier
\* * (1 - d), with d = 0.6 in years 1 and 2, 0.4 in year 3 and 0.2 later.
C19_LeaseCostUsesDealershipRate ==
    engine.kind = "adjust_lease_maintenance_schedule" =>
        \A y \in 1..Len(engine.ret) :
            \A i \in 1..Len(engine.ret[y].services) :
                LET entry == engine.ret[y]
                    item == entry.services[i]
                IN  item.interval_based =>
                        item.cost_per_service =
                            DiscountedCost(BaseCostOf(item.service),
                                           MaintenanceBrandMultiplier(
                                               engine.args.vehicle_make),
                                           115, engine.args.regional_multiplier,
                                           DescribedDiscount(entry.year))

\* C20: on every segment curve and on the standard curve the cumulative rate
\* of a year is at most the rate of the year after it; beyond year 15 it is the
\* rate of the year before plus 0.005, held at 0.96, and never above 0.96.
C20_CumulativeRateNonDecreasing ==
    engine.kind = "get_cumulative_depreciation_rate" =>
        LET year == engine.args.year
            segment == engine.args.segment
        IN  /\ engine.ret <= get_cumulative_depreciation_rate(year + 1, segment)
            /\ year > 15 =>
                   /\ engine.ret <= 960
                   /\ engine.ret =
                          Min(960, get_cumulative_depreciation_rate(year - 1, segment) + 5)

\* an extrapolated year of the standard curve, held at the ceiling
C20_Witness ==
    /\ engine.kind = "get_cumulative_depreciation_rate"
    /\ engine.args.segment \notin Segments
    /\ engine.args.year > 31
    /\ engine.ret = 960

\* the depreciation schedule of a new Toyota Camry driven 12,000 miles a year
CamrySchedule ==
    /\ engine.kind = "calculate_depreciation_schedule"
    /\ engine.args.make = "Toyota"
    /\ engine.args.model = "Camry"
    /\ engine.args.annual_mileage = 12000
    /\ Len(engine.ret) >= 1

\* C21 as stated: the year-1 rate of the Camry schedule is the year-1 value of
\* the sedan (or compact) curve times the Toyota brand multiplier 0.78 times a
\* mileage multiplier of 1.0 (rates in ppm).
C21_CamryRateIsCurveTimesBrand ==
    CamrySchedule =>
        engine.ret[1].depreciation_rate \in
            {segment_curves.sedan[1] * 78 * 10, segment_curves.compact[1] * 78 * 10}

\* C21: the year-1 rate of the Camry schedule is the year-1 value of the sedan
\* curve times the Toyota brand multiplier 0.78, times 0.85 because the Camry is
\* a high-retention model, times a mileage multiplier of 1.0 (rates in ppm).
C21_CamryRateIncludesModelAdjustment ==
    CamrySchedule =>
        /\ engine.ret[1].segment = "sedan"
        /\ engine.ret[1].mileage_multiplier = 1000000
        /\ engine.ret[1].brand_multiplier = 78 * 85
        /\ engine.ret[1].depreciation_rate = (segment_curves.sedan[1] * 78 * 85) \div 10

\* the Camry schedule of the scenario: $28,000 over five years
C21_Witness ==
    /\ CamrySchedule
    /\ engine.args.initial_value = 2800000
    /\ engine.args.years = 5
    /\ engine.ret[1].depreciation_rate = 139230

\* a call on a valid scenario whose characteristics record has neither mpg nor
\* reliability score
MissingCharacteristicsCall ==
    /\ call.kind = "call"
    /\ "mpg" \notin DOMAIN call.chars
    /\ "reliability_score" \notin DOMAIN call.chars
    /\ Lower(call.input.transaction_type) \in {"purchase", "lease"}
    /\ call.input.analysis_years \in 1..MaxHorizon

\* C22: with a characteristics record without mpg and without reliability
\* score, a purchase or lease calculation on a valid scenario returns a result,
\* estimates fuel at 25 MPG and reports reliability score 3.5.
C22_MissingCharacteristicsUseDefaults ==
    MissingCharacteristicsCall =>
        /\ call.outcome.kind = "result"
        /\ \A y \in 1..Len(call.outcome.annual_breakdown) :
               call.outcome.annual_breakdown[y].fuel_args.mpg = 25
        /\ call.outcome.assumptions.reliability_score = 35

\* C23: get_calculation_results(v) returns nothing, or a result that was saved
\* for an input equal to v in vehicle identity and in every scenario field.
C23_ResultsKeyedOnFullInput ==
    (/\ returned.kind = "get_calculation_results"
     /\ returned.value # None) =>
        /\ returned.value.vehicle_data = returned.args.vehicle_data
        /\ returned.value.results = ResultsFor(returned.args.vehicle_data)

\* C24: for purchase and lease alike the affordability check reports
\* is_affordable exactly when the annual cost is at most a tenth of the gross
\* income, the percentage being annual cost / gross income * 100, and
\* monthly_budget_impact is the annual cost / 12.
C24_AffordableUpToTenPercent ==
    engine.kind = "calculate_affordability" =>
        LET annual_cost == engine.args.annual_cost
            gross_income == engine.args.gross_income
        IN  /\ engine.ret.is_affordable <=> (annual_cost * 10 <= gross_income)
            /\ engine.ret.is_affordable
                   <=> AtMostPercent(engine.ret.percentage_of_income, 10)
            /\ engine.ret.percentage_of_income.whole * gross_income
                   + engine.ret.percentage_of_income.remainder = annual_cost * 100
            /\ engine.ret.percentage_of_income.remainder \in 0..(gross_income - 1)
            /\ engine.ret.monthly_budget_impact = annual_cost \div 12

\* a purchase whose annual cost is between 10% and 15% of the income, reported
\* as not affordable
C24_Witness ==
    /\ engine.kind = "calculate_affordability"
    /\ engine.args.transaction_type = "purchase"
    /\ engine.args.annual_cost * 10 > engine.args.gross_income
    /\ engine.args.annual_cost * 100 < engine.args.gross_income * 15
    /\ ~engine.ret.is_affordable

\* the comparison list holds no two entries of one configuration and at most
\* max_vehicles entries
ComparisonListWellFormed ==
    LET list == session_state.comparison_vehicles
    IN  /\ \A i, j \in 1..Len(list) :
               SameConfiguration(list[i], list[j]) => i = j
        /\ Len(list) <= session_state.user_preferences.max_vehicles
        /\ session_state.user_preferences.max_vehicles = 5

\* a step of add_vehicle_to_comparison or remove_vehicle_from_comparison: a
\* duplicate, an add to a full list and an out-of-range index are refused, and
\* a refused call leaves the list and the saved results as they were
RefusedCallChangesNothing ==
    LET list == session_state.comparison_vehicles
    IN  /\ returned'.kind = "add_vehicle_to_comparison" =>
               /\ returned'.value.ok <=>
                      /\ \A i \in 1..Len(list) :
                             ~SameConfiguration(list[i],
                                                returned'.args.vehicle_data)
                      /\ Len(list) < 5
               /\ returned'.value.ok =>
                      session_state'.comparison_vehicles =
                          Append(list, returned'.args.vehicle_data)
        /\ returned'.kind = "remove_vehicle_from_comparison" =>
               (returned'.value.ok <=> returned'.args.index \in 0..(Len(list) - 1))
        /\ (/\ returned'.kind \in {"add_vehicle_to_comparison",
                                   "remove_vehicle_from_comparison"}
            /\ ~returned'.value.ok) =>
               /\ session_state'.comparison_vehicles = list
               /\ session_state'.comparison_results = session_state.comparison_results

\* C25: after any sequence of add_vehicle_to_comparison and
\* remove_vehicle_from_comparison calls the comparison list never holds two
\* entries equal on (make, model, year, trim, transaction_type) nor more than
\* max_vehicles (5) entries; a duplicate add, an add over the limit and a
\* remove with an out-of-range index return a failure flag and leave the list
\* and the saved results unchanged.
C25_ComparisonListBounded ==
    []ComparisonListWellFormed /\ [][RefusedCallChangesNothing]_vars

\* an add refused because the list is full, with results saved
C25_Witness ==
    /\ returned.kind = "add_vehicle_to_comparison"
    /\ ~returned.value.ok
    /\ returned.value.message = "maximum"
    /\ Len(session_state.comparison_vehicles) = 5
    /\ session_state.comparison_results # {}

\* the comparison list, saved results, current vehicle and results, flags and
\* legacy form data are at their defaults
SessionDataAtDefaults(state) ==
    \A k \in SessionKeys : k \in DOMAIN state /\ state[k] = SessionDefaults[k]

\* a step of clear_session_state or clear_all_data
ClearStep ==
    /\ returned'.kind = "clear_session_state" =>
           /\ SessionDataAtDefaults(session_state')
           /\ session_state'.persistent_settings = session_state.persistent_settings
    /\ returned'.kind = "clear_all_data" =>
           /\ SessionDataAtDefaults(session_state')
           /\ session_state'.persistent_settings = DefaultPersistentSettings
           /\ \A c \in DOMAIN session_state'.persistent_settings :
                  ~session_state'.persistent_settings[c].is_set

\* C26: clear_session_state resets the comparison list, saved results, current
\* vehicle and results, flags and legacy form data to their defaults and leaves
\* persistent_settings unchanged; clear_all_data also resets
\* persistent_settings to the defaults with every is_set flag false.
C26_ClearKeepsPersistentSettings == [][ClearStep]_vars

\* clear_session_state has run on a store whose four categories were saved
C26_Witness ==
    /\ returned.kind = "clear_session_state"
    /\ \A c \in DOMAIN session_state.persistent_settings :
           session_state.persistent_settings[c].is_set
    /\ session_state.persistent_settings.location.zip_code = "90210"
    /\ session_state.persistent_settings.personal.gross_income = 8000000
    /\ SessionDataAtDefaults(session_state)

\* C27: for a known original MSRP, any age >= 0 and any mileage >= 0,
\* estimate_current_value returns at least 10% of the original MSRP and at
\* most the original MSRP.
C27_EstimateWithinMsrp ==
    engine.kind = "estimate_current_value" =>
        /\ engine.ret * 10 >= engine.args.original_msrp
        /\ engine.ret <= engine.args.original_msrp

\* C28: for every model year, current mileage and current year the
\* orchestrator selects the used-vehicle depreciation model exactly when the
\* summary of the same result reports is_used_vehicle, and exactly when
\* UsedVehicleEstimator.is_used_vehicle holds for the same vehicle.
C28_UsedDetectionsAgree ==
    (/\ engine.kind = "purchase_tco_from_maintenance"
     /\ engine.ret.kind = "result") =>
        LET input_data == engine.args.input
            selected == PurchaseLocals(input_data, engine.args.now).depreciation_model
        IN  /\ selected = "used" <=> engine.ret.summary.is_used_vehicle
            /\ selected = "used" <=>
                   is_used_vehicle(input_data.year, input_data.current_mileage,
                                   engine.args.now)

\* the annual mileage a scenario is calculated with: the lease mileage limit
\* for a lease, the annual mileage for a purchase
ScenarioAnnualMileage(input_data) ==
    IF Lower(Get(input_data, "transaction_type", "purchase")) = "lease"
    THEN input_data.lease_mileage_limit ELSE input_data.annual_mileage

\* C29: in every year k of a result the row's cumulative_mileage is the
\* odometer at acquisition plus k times the scenario's annual mileage, and is
\* the total_mileage of the maintenance schedule entry of the same year.
C29_CumulativeMileageFromOdometer ==
    (call.kind = "call" /\ call.outcome.kind = "result") =>
        \A k \in 1..Len(call.outcome.annual_breakdown) :
            /\ call.outcome.annual_breakdown[k].cumulative_mileage =
                   Get(call.input, "current_mileage", 0)
                       + k * ScenarioAnnualMileage(call.input)
            /\ call.outcome.annual_breakdown[k].cumulative_mileage =
                   call.outcome.maintenance_schedule[k].total_mileage

\* C30: the regional multiplier a calculation uses is the one of the
\* scenario's geography type and state: 1.15 times the suburban multiplier
\* for an urban location, 0.85 times it for a rural one, scaled by 1.1 in a
\* high-cost state and by 0.9 in a low-cost state.
C30_MultiplierFollowsGeography ==
    (/\ call.kind = "call"
     /\ call.outcome.kind = "result"
     /\ "geography_type" \in DOMAIN call.input) =>
        \A k \in 1..Len(call.outcome.annual_breakdown) :
            call.outcome.annual_breakdown[k].insurance_args.regional_multiplier =
                get_regional_cost_multiplier(call.input.geography_type,
                                             call.input.state)
====
